---- MODULE Spec2Model ----
(***************************************************************************)
(* The validation scheduler of the PDDL extension                          *)
(* (client/src/diagnostics/Diagnostics.ts) together with the plan          *)
(* validator it drives (client/src/diagnostics/PlanValidator.ts).          *)
(*                                                                         *)
(* Every method of the Diagnostics class is an operator from scheduler     *)
(* state to scheduler state (a record holding the fields of the object and *)
(* the collaborators it writes to), composed in the order of the           *)
(* statements of the method.  An action is one run of an event handler of  *)
(* the single-threaded event loop.                                         *)
(***************************************************************************)
EXTENDS Integers, Sequences, FiniteSets, Bags, TLC

(***************************************************************************)
(* Bounds of the model.                                                    *)
(***************************************************************************)
\* handles the event loop can hand out for pending timers
MaxTimers == 2
\* validator invocations that may be outstanding at once
MaxInFlight == 2
\* largest configured delayInSecondsBeforeParsing
MaxDelay == 2

(***************************************************************************)
(* Program constants.                                                      *)
(***************************************************************************)
defaultTimerDelayInSeconds == 3
MsPerSecond == 1000
\* plan times are counted in units of 0.00005 s: the tolerance 1e-4 of the step
\* match, and the time stamp -1 that analyzeOutput starts from
Tolerance == 2
noTimeStamp == -20000

(***************************************************************************)
(* The files of the workspace.  A file is identified by its URI; what the  *)
(* parser found in it (kind, names, text) is fixed per URI.                *)
(***************************************************************************)
FileInfos ==
    ( "u1" :> [kind |-> "unknown", folder |-> "A", name |-> "",
               ref |-> "", text |-> "(defin"]
   @@ "u2" :> [kind |-> "unknown", folder |-> "A", name |-> "",
               ref |-> "", text |-> ""]
   @@ "d1" :> [kind |-> "domain", folder |-> "A", name |-> "dom",
               ref |-> "", text |-> "(define (domain dom))"]
   @@ "d2" :> [kind |-> "domain", folder |-> "A", name |-> "Dom",
               ref |-> "", text |-> "(define (domain Dom))"]
   @@ "p1" :> [kind |-> "problem", folder |-> "A", name |-> "prob",
               ref |-> "dom", text |-> "(define (problem prob))"]
   @@ "p2" :> [kind |-> "problem", folder |-> "A", name |-> "prob2",
               ref |-> "other", text |-> "(define (problem prob2))"]
   @@ "p3" :> [kind |-> "problem", folder |-> "B", name |-> "prob3",
               ref |-> "dom", text |-> "(define (problem prob3))"]
   @@ "l1" :> [kind |-> "plan", folder |-> "A", name |-> "",
               ref |-> "PROB", text |-> "0.1: (a)"]
   @@ "l2" :> [kind |-> "plan", folder |-> "A", name |-> "",
               ref |-> "missing", text |-> "0.1: (a)"] )

AllFiles == DOMAIN FileInfos

\* the order in which the workspace enumerates its files
FileOrder == <<"u1", "u2", "d1", "d2", "p1", "p2", "p3", "l1", "l2">>

\* String.prototype.toLowerCase on the names that occur
toLowerCase(s) ==
    CASE s = "Dom" -> "dom"
      [] s = "PROB" -> "prob"
      [] s = "TYPE1" -> "type1"
      [] OTHER -> s

isUnknownPddl(f) == FileInfos[f].kind = "unknown"
isDomain(f) == FileInfos[f].kind = "domain"
isProblem(f) == FileInfos[f].kind = "problem"
isPlan(f) == FileInfos[f].kind = "plan"

FileStatus == {"Dirty", "Parsed", "Validating", "Validated"}

(***************************************************************************)
(* State.                                                                  *)
(***************************************************************************)
VARIABLES
    files,                \* pddlWorkspace: the URIs of the files it holds
    status,               \* FileInfo.status of the current FileInfo of each URI
    pddlParserSettings,   \* Diagnostics.pddlParserSettings
    validatorPath,        \* plannerConfiguration.getValidatorPath()
    timeout,              \* Diagnostics.timeout: the last timer handle, 0 = undefined
    timers,               \* event loop: pending timer handle -> milliseconds left
    validator,            \* Diagnostics.validator: the cached validator, <<>> = undefined
    diagnosticCollection, \* URI -> published diagnostics
    inflight,             \* bag of the validator.validate calls whose callback is outstanding
    log,                  \* what the last handler run did, in order
    burst,                \* observer: UPDATED events of the current burst
    sinceUpdated,         \* observer: milliseconds since the last UPDATED event
    sweptAt,              \* observer: sinceUpdated at each timer sweep of the burst
    planRun,              \* what spawnSync returns to the plan validation under study
    planOutcome,          \* what that plan validation returned, <<>> before it has run
    codeLens,             \* the code lens request of ProblemObjectsView under way, <<>> = none
    typeObjectMap,        \* a TypeObjectMap
    added,                \* the (type, object) pairs added to typeObjectMap, in order
    constants,            \* domainFile.constants
    objects,              \* problemFileInfo.objects
    allTypeObjects,       \* what concatObjects returned, <<>> before the call
    typeInheritance,      \* the child -> parent edges of a domain, in the order declared
    typesInheriting       \* type -> what getTypesInheritingFrom returned, <<>> before the calls

vars == <<files, status, pddlParserSettings, validatorPath, timeout, timers,
          validator, diagnosticCollection, inflight, log, burst, sinceUpdated, sweptAt,
          planRun, planOutcome, codeLens, typeObjectMap, added, constants, objects,
          allTypeObjects, typeInheritance, typesInheriting>>

\* the state of the language features, which the scheduler does not touch
language == <<codeLens, typeObjectMap, added, constants, objects, allTypeObjects,
              typeInheritance, typesInheriting>>

\* no language feature is in use
InitLanguage ==
    /\ codeLens = <<>>
    /\ typeObjectMap = <<>>
    /\ added = <<>>
    /\ constants = <<>>
    /\ objects = <<>>
    /\ allTypeObjects = <<>>
    /\ typeInheritance = <<>>
    /\ typesInheriting = <<>>

observer == <<burst, sinceUpdated, sweptAt>>

analysis == <<planRun, planOutcome>>

\* the scheduler state a handler reads and writes
Cur ==
    [ status |-> status, settings |-> pddlParserSettings,
      validatorPath |-> validatorPath, timeout |-> timeout, timers |-> timers,
      validator |-> validator, diagnostics |-> diagnosticCollection,
      inflight |-> inflight, log |-> <<>>, ok |-> TRUE ]

\* s.ok is FALSE when a handler would exceed a bound of the model
Assigns(s) ==
    /\ s.ok
    /\ status' = s.status
    /\ pddlParserSettings' = s.settings
    /\ validatorPath' = s.validatorPath
    /\ timeout' = s.timeout
    /\ timers' = s.timers
    /\ validator' = s.validator
    /\ diagnosticCollection' = s.diagnostics
    /\ inflight' = s.inflight
    /\ log' = s.log
    /\ UNCHANGED <<files, language>>

Becomes(s) == Assigns(s) /\ UNCHANGED analysis

\* one entry of the log: the call, the file it is about, the status change of a
\* setStatus, the other values passed, and scheduleFurtherValidation where the
\* call carries it
Entry(op, f, from, to, with) ==
    [op |-> op, file |-> f, from |-> from, to |-> to, with |-> with, flag |-> FALSE]

Flagged(e, flag) == [e EXCEPT !.flag = flag]

Logged(s, e) == [s EXCEPT !.log = Append(@, e)]

\* FileInfo.setStatus, called by the scheduler
setStatus(s, f, st) ==
    Logged([s EXCEPT !.status[f] = st],
           Entry("setStatus", f, s.status[f], st, {}))

(***************************************************************************)
(* Timers of the event loop (setTimeout / clearTimeout).                   *)
(***************************************************************************)
Without(fn, k) == [x \in DOMAIN fn \ {k} |-> fn[x]]

FreeHandles(s) == {h \in 1..MaxTimers : h \notin DOMAIN s.timers}

\* a fresh Timeout object.  The handle of a timer that is no longer pending is
\* handed out again: the only holder of a handle is this.timeout, which is
\* overwritten with the new handle in the same statement.
NewHandle(s) == CHOOSE h \in FreeHandles(s) : \A g \in FreeHandles(s) : h <= g

\* x || y on an optional number: undefined (<<>>) and 0 are falsy
OrDefault(opt, default) ==
    IF opt # <<>> /\ opt[1] # 0 THEN opt[1] ELSE default

timerDelayInSeconds(s) ==
    OrDefault(s.settings.delayInSecondsBeforeParsing, defaultTimerDelayInSeconds)

\* clearTimeout(handle): no effect when the timer is not pending
clearTimeout(s, h) ==
    Logged([s EXCEPT !.timers = Without(@, h)],
           Entry("clearTimeout", "", IF h \in DOMAIN s.timers THEN "pending" ELSE "", "", {h}))

\* setTimeout(() => this.validateAllDirty(), ms): the state, with ok FALSE when the
\* handles of the model are used up
setTimeout(s, ms) ==
    IF FreeHandles(s) = {} THEN [s EXCEPT !.ok = FALSE]
    ELSE LET h == NewHandle(s)
         IN  Logged([s EXCEPT !.timers = (h :> ms) @@ @, !.timeout = h],
                    Entry("setTimeout", "", "", "", {h}))

cancelScheduledValidation(s) ==
    IF s.timeout # 0 THEN clearTimeout(s, s.timeout) ELSE s

\* variant: the pending timer is left in place
scheduleValidationNoCancel(s) ==
    setTimeout(s, timerDelayInSeconds(s) * MsPerSecond)

\* variant: the configured delay is ignored
scheduleValidationDefaultDelay(s) ==
    setTimeout(cancelScheduledValidation(s), defaultTimerDelayInSeconds * MsPerSecond)

scheduleValidation(s) ==
    LET c == cancelScheduledValidation(s)
    IN  setTimeout(c, timerDelayInSeconds(c) * MsPerSecond)

(***************************************************************************)
(* Diagnostics published to the editor.                                    *)
(***************************************************************************)
Diagnostic(line, message, severity) ==
    [line |-> line, message |-> message, severity |-> severity]

\* variant: an empty list of diagnostics is not published
sendDiagnosticsNonEmpty(s, uris, diags) ==
    IF diags = <<>> THEN s
    ELSE [s EXCEPT !.diagnostics = [u \in uris |-> diags] @@ @]

\* diagnosticCollection.set for every entry of the map
sendDiagnostics(s, uris, diags) ==
    [s EXCEPT !.diagnostics = [u \in uris |-> diags] @@ @]

sendDiagnostic(s, fileUri, message, severity) ==
    [s EXCEPT !.diagnostics = (fileUri :> <<Diagnostic(0, message, severity)>>) @@ @]

sendDiagnosticInfo(s, fileUri, message) ==
    sendDiagnostic(s, fileUri, message, "Information")

\* variant: the whole collection is cleared
clearDiagnosticsAll(s, fileUri) ==
    [s EXCEPT !.diagnostics = <<>>]

clearDiagnostics(s, fileUri) ==
    [s EXCEPT !.diagnostics = Without(@, fileUri)]

(***************************************************************************)
(* Workspace queries.                                                      *)
(***************************************************************************)
\* pddlWorkspace.getAllFilesIf: the files of all folders that satisfy Test
getAllFilesIf(Test(_)) ==
    SelectSeq(FileOrder, LAMBDA f : f \in files /\ Test(f))

\* pddlWorkspace.getProblemFiles: the dirty problem files of the domain in its folder
getProblemFiles(s, d) ==
    getAllFilesIf(LAMBDA p :
        /\ isProblem(p)
        /\ FileInfos[p].folder = FileInfos[d].folder
        /\ toLowerCase(FileInfos[p].ref) = toLowerCase(FileInfos[d].name)
        /\ s.status[p] = "Parsed")

\* folder.getDomainFilesFor: the domains of the folder named as the problem says
getDomainFilesFor(p) ==
    getAllFilesIf(LAMBDA d :
        /\ isDomain(d)
        /\ FileInfos[d].folder = FileInfos[p].folder
        /\ toLowerCase(FileInfos[d].name) = toLowerCase(FileInfos[p].ref))

Range(seq) == {seq[i] : i \in DOMAIN seq}

\* variant: the file is not marked Validating on the way
validateUnknownFileDirect(s, f) ==
    LET s0 == Logged(s, Entry("validateUnknownFile", f, "", "", {}))
        s2 == IF FileInfos[f].text # ""
              THEN sendDiagnostic(s0, f, "Cannot recognize", "Error")
              ELSE clearDiagnostics(s0, f)
    IN  setStatus(s2, f, "Validated")

\* variant: the file is left under validation
validateUnknownFileNoFinish(s, f) ==
    LET s0 == Logged(s, Entry("validateUnknownFile", f, "", "", {}))
        s1 == setStatus(s0, f, "Validating")
    IN  IF FileInfos[f].text # ""
        THEN sendDiagnostic(s1, f, "Cannot recognize", "Error")
        ELSE clearDiagnostics(s1, f)

(***************************************************************************)
(* Diagnostics.validateUnknownFile                                         *)
(***************************************************************************)
validateUnknownFile(s, f) ==
    LET s0 == Logged(s, Entry("validateUnknownFile", f, "", "", {}))
        s1 == setStatus(s0, f, "Validating")
        s2 == IF FileInfos[f].text # ""
              THEN sendDiagnostic(s1, f, "Cannot recognize", "Error")
              ELSE clearDiagnostics(s1, f)
    IN  setStatus(s2, f, "Validated")

RECURSIVE ForEach(_, _, _)
\* seq.forEach(x => s = Op(s, x))
ForEach(Op(_, _), s, seq) ==
    IF seq = <<>> THEN s ELSE ForEach(Op, Op(s, Head(seq)), Tail(seq))

\* variant: with several candidate domains the first one is taken
getDomainFileForFirstCandidate(s, p) ==
    LET domainFiles == getDomainFilesFor(p)
    IN  IF Len(domainFiles) = 0
        THEN [s |-> setStatus(sendDiagnosticInfo(s, p, "no domains open"),
                              p, "Validated"),
              domainFile |-> <<>>]
        ELSE [s |-> s, domainFile |-> <<domainFiles[1]>>]

(***************************************************************************)
(* Diagnostics.getDomainFileFor: the state after the call, and its result  *)
(* (<<>> for null).                                                        *)
(***************************************************************************)
getDomainFileFor(s, p) ==
    LET domainFiles == getDomainFilesFor(p)
    IN  IF Len(domainFiles) > 1
        THEN [s |-> setStatus(sendDiagnosticInfo(s, p, "multiple candidate domains"),
                              p, "Validated"),
              domainFile |-> <<>>]
        ELSE IF Len(domainFiles) = 0
        THEN [s |-> setStatus(sendDiagnosticInfo(s, p, "no domains open"),
                              p, "Validated"),
              domainFile |-> <<>>]
        ELSE [s |-> s, domainFile |-> <<domainFiles[1]>>]

(***************************************************************************)
(* Diagnostics.createValidator                                             *)
(***************************************************************************)
\* /^http[s]?:/i on the paths that occur
MatchesHttp(path) == path \in {"http://solver", "HTTPS://solver"}

\* variant: no instance is kept; every call creates one
createValidatorUncached(s) ==
    LET set == s.settings
    IN  IF MatchesHttp(set.executableOrService)
        THEN Logged([s EXCEPT !.validator =
                       <<[kind |-> "ValidatorService",
                          path |-> set.executableOrService,
                          syntax |-> "", customPattern |-> ""]>>],
                    Entry("new ValidatorService", "", "", "", {}))
        ELSE Logged([s EXCEPT !.validator =
                       <<[kind |-> "ValidatorExecutable",
                          path |-> set.executableOrService,
                          syntax |-> set.executableOptions,
                          customPattern |-> set.problemPattern]>>],
                    Entry("new ValidatorExecutable", "", "", "", {}))

createValidator(s) ==
    LET v == s.validator
        set == s.settings
    IN  IF \/ v = <<>>
           \/ v[1].path # set.executableOrService
           \/ /\ v[1].kind = "ValidatorExecutable"
              /\ \/ v[1].syntax # set.executableOptions
                 \/ v[1].customPattern # set.problemPattern
        THEN IF MatchesHttp(set.executableOrService)
             THEN Logged([s EXCEPT !.validator =
                            <<[kind |-> "ValidatorService",
                               path |-> set.executableOrService,
                               syntax |-> "", customPattern |-> ""]>>],
                         Entry("new ValidatorService", "", "", "", {}))
             ELSE Logged([s EXCEPT !.validator =
                            <<[kind |-> "ValidatorExecutable",
                               path |-> set.executableOrService,
                               syntax |-> set.executableOptions,
                               customPattern |-> set.problemPattern]>>],
                         Entry("new ValidatorExecutable", "", "", "", {}))
        ELSE s

(***************************************************************************)
(* Diagnostics.validateDomainAndProblems                                   *)
(***************************************************************************)
\* validator.validate(domainInfo, problemFiles, onSuccess, onError): the call is
\* outstanding until one of the two callbacks is delivered
validate(s, d, problemFiles, scheduleFurtherValidation) ==
    IF BagCardinality(s.inflight) >= MaxInFlight THEN [s EXCEPT !.ok = FALSE]
    ELSE Logged([s EXCEPT !.inflight =
                    @ (+) SetToBag({[domain |-> d, problems |-> Range(problemFiles),
                                     further |-> scheduleFurtherValidation,
                                     stale |-> {}]})],
                Entry("validate", d, "", "", Range(problemFiles)))

SetValidating(s, f) == setStatus(s, f, "Validating")

\* variant: the files are marked before the setting is looked at
validateDomainAndProblemsMarkFirst(s, d, problemFiles, scheduleFurtherValidation) ==
    LET s1 == setStatus(s, d, "Validating")
        s2 == ForEach(SetValidating, s1, problemFiles)
    IN  IF s.settings.executableOrService = ""
        THEN Logged(s2, Entry("suggestNewParserConfiguration", "", "", "", {}))
        ELSE validate(createValidator(s2), d, problemFiles, scheduleFurtherValidation)

validateDomainAndProblems(s, d, problemFiles, scheduleFurtherValidation) ==
    IF s.settings.executableOrService = ""
    THEN Logged(s, Entry("suggestNewParserConfiguration", "", "", "", {}))
    ELSE LET s1 == setStatus(s, d, "Validating")
             s2 == ForEach(SetValidating, s1, problemFiles)
             s3 == createValidator(s2)
         IN  validate(s3, d, problemFiles, scheduleFurtherValidation)

\* variant: a domain takes every problem of its folder that names it, dirty or not
validatePddlDocumentEveryProblem(s, f, scheduleFurtherValidation) ==
    LET s0 == Logged(s, Entry("validatePddlDocument", f, "", "", {}))
    IN  IF isDomain(f)
        THEN validateDomainAndProblems(s0, f,
                 getAllFilesIf(LAMBDA p :
                     /\ isProblem(p)
                     /\ FileInfos[p].folder = FileInfos[f].folder
                     /\ toLowerCase(FileInfos[p].ref) = toLowerCase(FileInfos[f].name)),
                 scheduleFurtherValidation)
        ELSE IF isProblem(f)
        THEN LET r == getDomainFileFor(s0, f)
             IN  IF r.domainFile # <<>>
                 THEN validateDomainAndProblems(r.s, r.domainFile[1], <<f>>,
                                                scheduleFurtherValidation)
                 ELSE r.s
        ELSE s0

(***************************************************************************)
(* Diagnostics.validatePddlDocument                                        *)
(***************************************************************************)
validatePddlDocument(s, f, scheduleFurtherValidation) ==
    LET s0 == Logged(s, Entry("validatePddlDocument", f, "", "", {}))
    IN  IF isDomain(f)
        THEN validateDomainAndProblems(s0, f, getProblemFiles(s0, f),
                                       scheduleFurtherValidation)
        ELSE IF isProblem(f)
        THEN LET r == getDomainFileFor(s0, f)
             IN  IF r.domainFile # <<>>
                 THEN validateDomainAndProblems(r.s, r.domainFile[1], <<f>>,
                                                scheduleFurtherValidation)
                 ELSE r.s
        ELSE s0

(***************************************************************************)
(* PlanValidator.ts.  The output of the validate tool is the set of        *)
(* markers it contains, the texts T of its "Checking next happening        *)
(* (time T)" lines in order, and the text between "Plan Repair Advice:"    *)
(* and "Failed plans:" as its lines (advice is <<>> when the output lacks  *)
(* one of the two, else <<lines>>).                                        *)
(***************************************************************************)
\* planInfo.getSteps(): start time and line index of each step; the first line
\* of the plan file holds no step
PlanSteps(l) ==
    << [time |-> 20000, lineIndex |-> 1],
       [time |-> 50000, lineIndex |-> 2],
       [time |-> 60000, lineIndex |-> 3] >>

\* the texts T that occur, with the number each one denotes
TimeTexts ==
    ("1.0" :> 20000) @@ ("2.5" :> 50000) @@ ("2.50005" :> 50001) @@ ("4.0" :> 80000)
        @@ ("3" :> 60000)

\* T matches (\d+.\d+): digits, any one character, digits; a T of fewer than
\* three characters does not
MatchesTimeStamp(T) == T \in {"1.0", "2.5", "2.50005", "4.0"}

\* parseFloat of a matched T
parseFloat(T) == TimeTexts[T]

RECURSIVE DropBlankHead(_)
DropBlankHead(lines) ==
    IF lines # <<>> /\ Head(lines) = "" THEN DropBlankHead(Tail(lines)) ELSE lines

RECURSIVE DropBlankTail(_)
DropBlankTail(lines) ==
    IF lines # <<>> /\ lines[Len(lines)] = ""
    THEN DropBlankTail(SubSeq(lines, 1, Len(lines) - 1)) ELSE lines

\* text.trim().split('\n') on a text given as its lines
TrimSplit(lines) ==
    LET trimmed == DropBlankTail(DropBlankHead(lines))
    IN  IF trimmed = <<>> THEN <<"">> ELSE trimmed

Abs(x) == IF x < 0 THEN 0 - x ELSE x

\* PlanStep.equalsWithin
equalsWithin(a, b, epsilon) == Abs(a - b) < epsilon

createDiagnostic(errorLine, error, severity) == Diagnostic(errorLine, error, severity)

\* new PlanValidationOutcome(planInfo, diagnostics, error); error <<>> is null
PlanValidationOutcome(planInfo, diagnostics, error) ==
    [planInfo |-> planInfo, diagnostics |-> diagnostics, error |-> error]

\* variant: the diagnostic is a warning
invalidPlanDescriptionWarning(planInfo) ==
    PlanValidationOutcome(planInfo,
        <<createDiagnostic(0, <<"Invalid plan description.">>, "Warning")>>,
        <<"Invalid plan description.">>)

invalidPlanDescription(planInfo) ==
    PlanValidationOutcome(planInfo,
        <<createDiagnostic(0, <<"Invalid plan description.">>, "Error")>>,
        <<"Invalid plan description.">>)

valid(planInfo) == PlanValidationOutcome(planInfo, <<>>, <<>>)

failed(planInfo, error) ==
    LET message == <<"Validate tool failed. ", error.message>>
    IN  PlanValidationOutcome(planInfo,
            <<createDiagnostic(0, message, "Error")>>, message)

\* Array.prototype.find: the first element that satisfies Test, <<>> if none
Find(seq, Test(_)) ==
    LET hits == SelectSeq(seq, Test)
    IN  IF hits = <<>> THEN <<>> ELSE <<Head(hits)>>

\* variant: only the first hint is reported
failedAtTimeFirstHint(planInfo, timeStamp, repairHints) ==
    LET stepAtTimeStamp ==
            Find(PlanSteps(planInfo),
                 LAMBDA step : equalsWithin(step.time, timeStamp, Tolerance))
        errorLine == IF stepAtTimeStamp # <<>> THEN stepAtTimeStamp[1].lineIndex ELSE 0
    IN  PlanValidationOutcome(planInfo,
            <<Diagnostic(errorLine, <<repairHints[1]>>, "Warning")>>, <<>>)

failedAtTime(planInfo, timeStamp, repairHints) ==
    LET stepAtTimeStamp ==
            Find(PlanSteps(planInfo),
                 LAMBDA step : equalsWithin(step.time, timeStamp, Tolerance))
        errorLine == IF stepAtTimeStamp # <<>> THEN stepAtTimeStamp[1].lineIndex ELSE 0
    IN  PlanValidationOutcome(planInfo,
            [i \in DOMAIN repairHints |->
                Diagnostic(errorLine, <<repairHints[i]>>, "Warning")],
            <<>>)

\* variant: unrecognised output is reported like a failure of the tool
unknownAsError(planInfo) ==
    PlanValidationOutcome(planInfo,
        <<Diagnostic(0, <<"Unknown error. Run the 'PDDL: Validate plan' command for more information.">>,
                     "Error")>>,
        <<"Unknown error.">>)

unknown(planInfo) ==
    PlanValidationOutcome(planInfo,
        <<Diagnostic(0, <<"Unknown error. Run the 'PDDL: Validate plan' command for more information.">>,
                     "Warning")>>,
        <<"Unknown error.">>)

\* the value timeStamp holds after the while loop over the matches
LastTimeStamp(times) ==
    LET matches == SelectSeq(times, MatchesTimeStamp)
    IN  IF matches = <<>> THEN noTimeStamp ELSE parseFloat(matches[Len(matches)])

\* output.match(/Plan Repair Advice:([\s\S]+)Failed plans:/): the block needs at
\* least one character, so one empty line is no match
MatchesAdvice(output) == output.advice # <<>> /\ output.advice[1] # <<"">>

\* variant: the markers are looked at before the process error
analyzeOutputMarkersFirst(planInfo, error, output) ==
    IF "Bad plan description!" \in output.markers THEN invalidPlanDescription(planInfo)
    ELSE IF "Plan valid" \in output.markers THEN valid(planInfo)
    ELSE IF error # <<>> THEN failed(planInfo, error[1])
    ELSE unknown(planInfo)

\* variant: "Plan valid" is looked for before "Bad plan description!"
analyzeOutputValidFirst(planInfo, error, output) ==
    IF error # <<>> THEN failed(planInfo, error[1])
    ELSE IF \/ "Plan failed to execute" \in output.markers
            \/ "Goal not satisfied" \in output.markers
    THEN LET timeStamp == LastTimeStamp(output.times)
         IN  IF MatchesAdvice(output)
             THEN failedAtTime(planInfo, timeStamp, TrimSplit(output.advice[1]))
             ELSE failedAtTime(planInfo, timeStamp,
                    <<"Unidentified error. Run the 'PDDL: Validate plan' command for more info.">>)
    ELSE IF "Plan valid" \in output.markers THEN valid(planInfo)
    ELSE IF "Bad plan description!" \in output.markers THEN invalidPlanDescription(planInfo)
    ELSE unknown(planInfo)

analyzeOutput(planInfo, error, output) ==
    IF error # <<>> THEN failed(planInfo, error[1])
    ELSE IF \/ "Plan failed to execute" \in output.markers
            \/ "Goal not satisfied" \in output.markers
    THEN LET timeStamp == LastTimeStamp(output.times)
         IN  IF MatchesAdvice(output)
             THEN failedAtTime(planInfo, timeStamp, TrimSplit(output.advice[1]))
             ELSE failedAtTime(planInfo, timeStamp,
                    <<"Unidentified error. Run the 'PDDL: Validate plan' command for more info.">>)
    ELSE IF "Bad plan description!" \in output.markers THEN invalidPlanDescription(planInfo)
    ELSE IF "Plan valid" \in output.markers THEN valid(planInfo)
    ELSE unknown(planInfo)

\* the problem file validatePlanAndReportDiagnostics settles on: the last file of
\* the folder that is a problem with the plan's problem name
ProblemFileOf(l) ==
    LET hits == getAllFilesIf(LAMBDA p :
                    /\ FileInfos[p].folder = FileInfos[l].folder
                    /\ isProblem(p)
                    /\ toLowerCase(FileInfos[p].name) = toLowerCase(FileInfos[l].ref))
    IN  IF hits = <<>> THEN <<>> ELSE <<hits[Len(hits)]>>

\* pddlWorkspace.getDomainFileFor: the one domain of the problem's folder, or none
WorkspaceDomainFileFor(p) ==
    LET domainFiles == getDomainFilesFor(p)
    IN  IF Len(domainFiles) = 1 THEN <<domainFiles[1]>> ELSE <<>>

\* the onSuccess callback that Diagnostics.validatePlan passes
validatePlanOnSuccess(s, l, diags, scheduleFurtherValidation) ==
    LET s0 == Logged(s, Flagged(Entry("onSuccess", l, "", "", {}),
                                scheduleFurtherValidation))
        s1 == sendDiagnostics(s0, {l}, diags)
    IN  IF scheduleFurtherValidation THEN scheduleValidation(s1) ELSE s1

\* the onError callback that Diagnostics.validatePlan passes
validatePlanOnError(s, l, err, scheduleFurtherValidation) ==
    LET s0 == Logged(s, Flagged(Entry("onError", l, "", "", {}),
                                scheduleFurtherValidation))
    IN  Logged(s0, Entry("showErrorMessage", "", "", "", {err}))

\* variant: a plan without problem or domain is reported through onError
validatePlanAndReportDiagnosticsOnError(s, l, run, scheduleFurtherValidation) ==
    LET problemFileInfo == ProblemFileOf(l)
    IN  IF problemFileInfo = <<>> \/ WorkspaceDomainFileFor(problemFileInfo[1]) = <<>>
        THEN LET outcome == failed(l, [name |-> "Error", message |-> "No problem file"])
             IN  [s |-> validatePlanOnError(s, l, "Error", scheduleFurtherValidation),
                  outcome |-> <<outcome>>]
        ELSE LET s1 == Logged(s, Entry("spawnSync", l, "", "", {}))
             IN  IF run.stdout = <<>>
                 THEN [s |-> Logged(s1, Entry("throw", l, "", "", {})), outcome |-> <<>>]
                 ELSE LET outcome == analyzeOutput(l, run.error, run.stdout[1])
                      IN  IF run.error # <<>>
                          THEN [s |-> validatePlanOnError(s1, l, run.error[1].name,
                                                         scheduleFurtherValidation),
                                outcome |-> <<outcome>>]
                          ELSE [s |-> validatePlanOnSuccess(s1, l, outcome.diagnostics,
                                                           scheduleFurtherValidation),
                                outcome |-> <<outcome>>]

\* PlanValidator.validatePlanAndReportDiagnostics with the callbacks of
\* Diagnostics.validatePlan: the state after the call and the outcome it
\* returns (<<>> when the call throws, so that its promise is rejected).
\* run is what spawnSync returns: error (<<>> if none) and stdout (<<>> if null).
validatePlanAndReportDiagnostics(s, l, run, scheduleFurtherValidation) ==
    LET problemFileInfo == ProblemFileOf(l)
    IN  IF problemFileInfo = <<>>
        THEN LET outcome == failed(l, [name |-> "Error", message |-> "No problem file"])
             IN  [s |-> validatePlanOnSuccess(s, l, outcome.diagnostics,
                                              scheduleFurtherValidation),
                  outcome |-> <<outcome>>]
        ELSE IF WorkspaceDomainFileFor(problemFileInfo[1]) = <<>>
        THEN LET outcome == failed(l, [name |-> "Error", message |-> "No domain file"])
             IN  [s |-> validatePlanOnSuccess(s, l, outcome.diagnostics,
                                              scheduleFurtherValidation),
                  outcome |-> <<outcome>>]
        ELSE LET s1 == Logged(s, Entry("spawnSync", l, "", "", {}))
             IN  IF run.stdout = <<>>
                 \* child.stdout.toString() on null throws a TypeError
                 THEN [s |-> Logged(s1, Entry("throw", l, "", "", {})), outcome |-> <<>>]
                 ELSE LET outcome == analyzeOutput(l, run.error, run.stdout[1])
                      IN  IF run.error # <<>>
                          THEN [s |-> validatePlanOnError(s1, l, run.error[1].name,
                                                         scheduleFurtherValidation),
                                outcome |-> <<outcome>>]
                          ELSE [s |-> validatePlanOnSuccess(s1, l, outcome.diagnostics,
                                                           scheduleFurtherValidation),
                                outcome |-> <<outcome>>]

(***************************************************************************)
(* Diagnostics.validatePlan                                                *)
(***************************************************************************)
\* PlanValidator.testConfiguration
testConfiguration(s) == s.validatorPath # ""

validatePlan(s, l, scheduleFurtherValidation, run) ==
    LET s0 == Logged(s, Entry("validatePlan", l, "", "", {}))
    IN  IF ~testConfiguration(s0)
        THEN Logged(s0, Entry("showErrorMessage", "", "", "", {"Set the 'validate' executable path"}))
        ELSE validatePlanAndReportDiagnostics(setStatus(s0, l, "Validating"), l, run,
                                              scheduleFurtherValidation).s

(***************************************************************************)
(* Diagnostics.validateAllDirty                                            *)
(***************************************************************************)
\* the log entry that opens a sweep: the files that are dirty when it starts
SweepStarts(s) ==
    Logged(s, Entry("validateAllDirty", "", "", "", {f \in files : s.status[f] = "Parsed"}))

\* variants of validateAllDirty
\* the sweep goes on to problems and plans after a dirty domain
validateAllDirtyNoReturn(s, run) ==
    LET dirtyUnknowns ==
            getAllFilesIf(LAMBDA f : isUnknownPddl(f) /\ s.status[f] = "Parsed")
        s1 == ForEach(validateUnknownFile, SweepStarts(s), dirtyUnknowns)
        dirtyDomains ==
            getAllFilesIf(LAMBDA f : isDomain(f) /\ s1.status[f] = "Parsed")
        sd == IF Len(dirtyDomains) > 0
              THEN validatePddlDocument(s1, dirtyDomains[1], Len(dirtyDomains) > 1)
              ELSE s1
        dirtyProblems ==
            getAllFilesIf(LAMBDA f : isProblem(f) /\ sd.status[f] = "Parsed")
        s2 == IF Len(dirtyProblems) > 0
              THEN validatePddlDocument(sd, dirtyProblems[1], Len(dirtyProblems) > 1)
              ELSE sd
        dirtyPlans ==
            getAllFilesIf(LAMBDA f : isPlan(f) /\ s2.status[f] = "Parsed")
    IN  IF Len(dirtyPlans) > 0
        THEN validatePlan(s2, dirtyPlans[1], Len(dirtyPlans) > 1, run)
        ELSE s2

\* the sweep takes the last dirty file of a tier
validateAllDirtyLast(s, run) ==
    LET dirtyUnknowns ==
            getAllFilesIf(LAMBDA f : isUnknownPddl(f) /\ s.status[f] = "Parsed")
        s1 == ForEach(validateUnknownFile, SweepStarts(s), dirtyUnknowns)
        dirtyDomains ==
            getAllFilesIf(LAMBDA f : isDomain(f) /\ s1.status[f] = "Parsed")
    IN  IF Len(dirtyDomains) > 0
        THEN validatePddlDocument(s1, dirtyDomains[Len(dirtyDomains)], Len(dirtyDomains) > 1)
        ELSE LET dirtyProblems ==
                     getAllFilesIf(LAMBDA f : isProblem(f) /\ s1.status[f] = "Parsed")
                 s2 == IF Len(dirtyProblems) > 0
                       THEN validatePddlDocument(s1, dirtyProblems[Len(dirtyProblems)],
                                                 Len(dirtyProblems) > 1)
                       ELSE s1
                 dirtyPlans ==
                     getAllFilesIf(LAMBDA f : isPlan(f) /\ s2.status[f] = "Parsed")
             IN  IF Len(dirtyPlans) > 0
                 THEN validatePlan(s2, dirtyPlans[Len(dirtyPlans)], Len(dirtyPlans) > 1, run)
                 ELSE s2

\* the sweep dispatches every dirty domain
ValidateDomain(s, d) == validatePddlDocument(s, d, FALSE)

validateAllDirtyEveryDomain(s, run) ==
    LET dirtyUnknowns ==
            getAllFilesIf(LAMBDA f : isUnknownPddl(f) /\ s.status[f] = "Parsed")
        s1 == ForEach(validateUnknownFile, SweepStarts(s), dirtyUnknowns)
        dirtyDomains ==
            getAllFilesIf(LAMBDA f : isDomain(f) /\ s1.status[f] = "Parsed")
    IN  IF Len(dirtyDomains) > 0
        THEN ForEach(ValidateDomain, s1, dirtyDomains)
        ELSE LET dirtyProblems ==
                     getAllFilesIf(LAMBDA f : isProblem(f) /\ s1.status[f] = "Parsed")
                 s2 == IF Len(dirtyProblems) > 0
                       THEN validatePddlDocument(s1, dirtyProblems[1],
                                                 Len(dirtyProblems) > 1)
                       ELSE s1
                 dirtyPlans ==
                     getAllFilesIf(LAMBDA f : isPlan(f) /\ s2.status[f] = "Parsed")
             IN  IF Len(dirtyPlans) > 0
                 THEN validatePlan(s2, dirtyPlans[1], Len(dirtyPlans) > 1, run)
                 ELSE s2

validateAllDirty(s, run) ==
    LET dirtyUnknowns ==
            getAllFilesIf(LAMBDA f : isUnknownPddl(f) /\ s.status[f] = "Parsed")
        s1 == ForEach(validateUnknownFile, SweepStarts(s), dirtyUnknowns)
        dirtyDomains ==
            getAllFilesIf(LAMBDA f : isDomain(f) /\ s1.status[f] = "Parsed")
    IN  IF Len(dirtyDomains) > 0
        THEN validatePddlDocument(s1, dirtyDomains[1], Len(dirtyDomains) > 1)
        ELSE LET dirtyProblems ==
                     getAllFilesIf(LAMBDA f : isProblem(f) /\ s1.status[f] = "Parsed")
                 s2 == IF Len(dirtyProblems) > 0
                       THEN validatePddlDocument(s1, dirtyProblems[1],
                                                 Len(dirtyProblems) > 1)
                       ELSE s1
                 dirtyPlans ==
                     getAllFilesIf(LAMBDA f : isPlan(f) /\ s2.status[f] = "Parsed")
             IN  IF Len(dirtyPlans) > 0
                 THEN validatePlan(s2, dirtyPlans[1], Len(dirtyPlans) > 1, run)
                 ELSE s2

(***************************************************************************)
(* Diagnostics.revalidateAll and handleConfigurationChange                 *)
(***************************************************************************)
\* variant: the pending timer is left to fire
revalidateAllNoCancel(s, run) ==
    LET MarkDirty(t, f) == IF t.status[f] # "Dirty" THEN setStatus(t, f, "Parsed") ELSE t
        s1 == ForEach(MarkDirty, s, getAllFilesIf(LAMBDA f : TRUE))
    IN  validateAllDirty(s1, run)

revalidateAll(s, run) ==
    LET MarkDirty(t, f) == IF t.status[f] # "Dirty" THEN setStatus(t, f, "Parsed") ELSE t
        s1 == ForEach(MarkDirty, s, getAllFilesIf(LAMBDA f : TRUE))
    IN  validateAllDirty(cancelScheduledValidation(s1), run)

\* configuration is what pddlConfiguration.getParserSettings() returns from now on
handleConfigurationChange(s, configuration, run) ==
    revalidateAll([s EXCEPT !.settings = configuration], run)

(***************************************************************************)
(* The environment: configurations, tool runs and validator reports the    *)
(* events draw from.                                                       *)
(***************************************************************************)
ParserSettings(executableOrService, executableOptions, problemPattern, delay) ==
    [ executableOrService |-> executableOrService,
      executableOptions |-> executableOptions,
      problemPattern |-> problemPattern,
      delayInSecondsBeforeParsing |-> delay ]

\* the configurations of the scheduler runs, as <<parser settings, validator
\* path>>: both tools configured, no parser executable, no validator path
SchedulerConfigurations ==
    { <<ParserSettings("validate.exe", "$(domain) $(problem)", "", <<>>), "validate">>,
      <<ParserSettings("", "", "", <<>>), "validate">>,
      <<ParserSettings("validate.exe", "$(domain) $(problem)", "", <<>>), "">>,
      <<ParserSettings("", "", "", <<>>), "">> }

\* every delay setting up to MaxDelay, and none
DelaySettings == {<<>>} \cup {<<n>> : n \in 0..MaxDelay}

ToolOutput(markers, times, advice) ==
    [markers |-> markers, times |-> times, advice |-> advice]

\* what spawnSync returns: the plan is valid; the tool timed out with partial
\* output; the tool could not be started (no stdout)
PlanRuns ==
    { [error |-> <<>>, stdout |-> <<ToolOutput({"Plan valid"}, <<>>, <<>>)>>],
      [error |-> <<[name |-> "Error", message |-> "spawnSync validate ETIMEDOUT"]>>,
       stdout |-> <<ToolOutput({}, <<>>, <<>>)>>],
      [error |-> <<[name |-> "Error", message |-> "spawn validate ENOENT"]>>,
       stdout |-> <<>>] }

\* what spawnSync can return to a handler: it is reached only for a dirty plan,
\* so a handler that finds none draws no result
SpawnResults(dirty) ==
    IF \E l \in files : isPlan(l) /\ dirty[l] THEN PlanRuns
    ELSE {[error |-> <<>>, stdout |-> <<ToolOutput({"Plan valid"}, <<>>, <<>>)>>]}

\* the diagnostics a domain/problem validator reports for each file it was given
ValidatorReports ==
    { <<Diagnostic(0, <<"syntax error">>, "Error")>> }

\* the groups of files a workspace holds
Workspaces ==
    { {"d1", "p1", "l1"},
      {"u1", "u2", "d1"},
      {"d1", "d2"},
      {"d2", "p2", "p3"},
      {"d1", "l1", "l2"} }

(***************************************************************************)
(* Events.  Each is one run of a handler; what it does to the observer     *)
(* variables is added by the specification that uses it.                   *)
(***************************************************************************)
FilesOf(inv) == {inv.domain} \cup inv.problems

\* the FileInfo of f that the call inv holds is no longer the one of the workspace
Superseded(inv, f) == [inv EXCEPT !.stale = @ \cup ({f} \cap FilesOf(inv))]

\* the bag of calls after the FileInfo of f was replaced
SupersededIn(calls, f) ==
    [inv \in {Superseded(c, f) : c \in BagToSet(calls)} |->
        BagCardinality([c \in {c \in BagToSet(calls) : Superseded(c, f) = inv} |->
                            calls[c]])]

\* pddlWorkspace.upsertFile for a changed text: a fresh, parsed FileInfo takes
\* the place of the one a validator may still hold, and UPDATED is emitted
UpsertFile(f) ==
    /\ f \in files
    /\ Becomes(scheduleValidation(
          [Cur EXCEPT !.status[f] = "Parsed",
                      !.inflight = SupersededIn(inflight, f)]))

\* dt milliseconds pass; no pending timer is overdue
Elapse(dt) ==
    /\ dt > 0
    /\ \A h \in DOMAIN timers : timers[h] >= dt
    /\ timers' = [h \in DOMAIN timers |-> timers[h] - dt]
    /\ log' = <<>>
    /\ UNCHANGED <<files, status, pddlParserSettings, validatorPath, timeout,
                   validator, diagnosticCollection, inflight, analysis, language>>

\* the timer h is due: its callback runs validateAllDirty
Fire(h, run) ==
    /\ h \in DOMAIN timers
    /\ timers[h] = 0
    /\ Becomes(validateAllDirty([Cur EXCEPT !.timers = Without(@, h)], run))

\* time advances to the deadline of the timer h, the next one due, and it fires
ElapseAndFire(h, run) ==
    /\ h \in DOMAIN timers
    /\ \A g \in DOMAIN timers : timers[h] <= timers[g]
    /\ Becomes(validateAllDirty(
          [Cur EXCEPT !.timers = [g \in DOMAIN timers \ {h} |-> timers[g] - timers[h]]],
          run))

\* workspace.onDidChangeConfiguration for the parser section or the validator path
Reconfigure(configuration, path, run) ==
    /\ configuration # pddlParserSettings \/ path # validatorPath
    /\ Becomes(handleConfigurationChange([Cur EXCEPT !.validatorPath = path],
                                         configuration, run))

\* the validator ends the call inv through onSuccess: it marks the FileInfo
\* objects it was given as Validated and reports the diagnostics of every file
Succeed(inv, report) ==
    /\ BagIn(inv, inflight)
    /\ LET s0 == [Cur EXCEPT !.inflight = @ (-) SetToBag({inv}),
                             !.status = [f \in files |->
                                 IF f \in FilesOf(inv) \ inv.stale
                                 THEN "Validated" ELSE status[f]]]
           s1 == Logged(s0, Flagged(Entry("onSuccess", inv.domain, "", "", inv.problems),
                                    inv.further))
           s2 == sendDiagnostics(s1, FilesOf(inv), report)
       IN  Becomes(IF inv.further THEN scheduleValidation(s2) ELSE s2)

\* the validator ends the call inv through onError
Fail(inv) ==
    /\ BagIn(inv, inflight)
    /\ LET s0 == [Cur EXCEPT !.inflight = @ (-) SetToBag({inv})]
           s1 == Logged(s0, Flagged(Entry("onError", inv.domain, "", "", inv.problems),
                                    inv.further))
           s2 == Logged(s1, Entry("showErrorMessage", "", "", "", {"validator failed"}))
       IN  Becomes(Logged(s2, Entry("suggestNewParserConfiguration", "", "", "", {})))

(***************************************************************************)
(* Spec: the scheduler under every interleaving of edits, timer fires,     *)
(* configuration changes and validator callbacks.  A timer fires when time *)
(* has advanced to its deadline.                                           *)
(***************************************************************************)
Init ==
    /\ files \in Workspaces
    /\ status = [f \in files |-> "Dirty"]
    /\ \E c \in SchedulerConfigurations :
          pddlParserSettings = c[1] /\ validatorPath = c[2]
    /\ timeout = 0
    /\ timers = <<>>
    /\ validator = <<>>
    /\ diagnosticCollection = <<>>
    /\ inflight = EmptyBag
    /\ log = <<>>
    /\ burst = 0
    /\ sinceUpdated = 0
    /\ sweptAt = <<>>
    /\ planRun = <<>>
    /\ planOutcome = <<>>
    /\ InitLanguage

\* the files a sweep finds dirty now, and after revalidateAll has reset the statuses
DirtyNow == [f \in files |-> status[f] = "Parsed"]

DirtyAfterReset == [f \in files |-> status[f] # "Dirty"]

Updated(f) == UpsertFile(f) /\ UNCHANGED observer

TimerFire(h, run) == ElapseAndFire(h, run) /\ UNCHANGED observer

ConfigurationChange(configuration, path, run) ==
    Reconfigure(configuration, path, run) /\ UNCHANGED observer

ValidateSuccess(inv, report) == Succeed(inv, report) /\ UNCHANGED observer

ValidateError(inv) == Fail(inv) /\ UNCHANGED observer

Next ==
    \/ \E f \in AllFiles : Updated(f)
    \/ \E h \in 1..MaxTimers, run \in SpawnResults(DirtyNow) : TimerFire(h, run)
    \/ \E c \in SchedulerConfigurations, run \in SpawnResults(DirtyAfterReset) :
          ConfigurationChange(c[1], c[2], run)
    \/ \E inv \in BagToSet(inflight), report \in ValidatorReports :
          ValidateSuccess(inv, report)
    \/ \E inv \in BagToSet(inflight) : ValidateError(inv)

Spec == Init /\ [][Next]_vars

(***************************************************************************)
(* SpecDebounce: bursts of UPDATED events against the clock.  Time passes  *)
(* one second at a time and the observer variables record the burst.  No   *)
(* tier holds two files, so no callback reschedules, and the configuration *)
(* does not change.                                                        *)
(***************************************************************************)
\* UPDATED events one burst of the model may hold
MaxBurst == 3

DebounceWorkspaces == { {"d1", "p1"}, {"u1", "l1"} }

DebounceDelay == timerDelayInSeconds(Cur) * MsPerSecond

\* the observer stops counting one second after the longest delay
DebounceHorizon ==
    ((IF MaxDelay > defaultTimerDelayInSeconds THEN MaxDelay
      ELSE defaultTimerDelayInSeconds) + 1) * MsPerSecond

InitDebounce ==
    /\ files \in DebounceWorkspaces
    /\ status = [f \in files |-> "Dirty"]
    /\ \E delay \in DelaySettings :
          pddlParserSettings =
              ParserSettings("validate.exe", "$(domain) $(problem)", "", delay)
    /\ validatorPath = "validate"
    /\ timeout = 0
    /\ timers = <<>>
    /\ validator = <<>>
    /\ diagnosticCollection = <<>>
    /\ inflight = EmptyBag
    /\ log = <<>>
    /\ burst = 0
    /\ sinceUpdated = 0
    /\ sweptAt = <<>>
    /\ planRun = <<>>
    /\ planOutcome = <<>>
    /\ InitLanguage

\* the event arrives before the sweep of the burst has run
ContinuesBurst == burst >= 1 /\ sweptAt = <<>> /\ sinceUpdated <= DebounceDelay

DebounceUpdated(f) ==
    /\ ContinuesBurst => burst < MaxBurst
    /\ UpsertFile(f)
    /\ burst' = IF ContinuesBurst THEN burst + 1 ELSE 1
    /\ sinceUpdated' = 0
    /\ sweptAt' = <<>>

DebounceTick ==
    /\ Elapse(MsPerSecond)
    /\ sinceUpdated' = IF sinceUpdated + MsPerSecond > DebounceHorizon
                       THEN DebounceHorizon ELSE sinceUpdated + MsPerSecond
    /\ UNCHANGED <<burst, sweptAt>>

DebounceTimerFire(h, run) ==
    /\ Fire(h, run)
    /\ sweptAt' = Append(sweptAt, sinceUpdated)
    /\ UNCHANGED <<burst, sinceUpdated>>

DebounceSuccess(inv, report) == Succeed(inv, report) /\ UNCHANGED observer

DebounceError(inv) == Fail(inv) /\ UNCHANGED observer

NextDebounce ==
    \/ \E f \in AllFiles : DebounceUpdated(f)
    \/ DebounceTick
    \/ \E h \in 1..MaxTimers, run \in SpawnResults(DirtyNow) : DebounceTimerFire(h, run)
    \/ \E inv \in BagToSet(inflight), report \in ValidatorReports :
          DebounceSuccess(inv, report)
    \/ \E inv \in BagToSet(inflight) : DebounceError(inv)

SpecDebounce == InitDebounce /\ [][NextDebounce]_vars

(***************************************************************************)
(* SpecProgress: one UPDATED event has armed the timer over any set of     *)
(* dirty files; both tools are configured and work; no edit and no         *)
(* configuration change follows.                                           *)
(***************************************************************************)
CompletedRuns == {run \in PlanRuns : run.error = <<>>}

\* workspaces with dirty files of every tier and of two folders
ProgressWorkspaces ==
    Workspaces \cup { {"u1", "d1", "p1", "l1"}, {"d1", "p1", "p2"}, {"d1", "p1", "p3"},
                      {"d1", "d2", "p1"} }

InitProgress ==
    /\ files \in ProgressWorkspaces
    /\ status \in [files -> {"Parsed", "Validated"}]
    /\ \E f \in files : status[f] = "Parsed"
    /\ pddlParserSettings = ParserSettings("validate.exe", "$(domain) $(problem)", "", <<>>)
    /\ validatorPath = "validate"
    /\ timeout = 1
    /\ timers = (1 :> defaultTimerDelayInSeconds * MsPerSecond)
    /\ validator = <<>>
    /\ diagnosticCollection = <<>>
    /\ inflight = EmptyBag
    /\ log = <<>>
    /\ burst = 0
    /\ sinceUpdated = 0
    /\ sweptAt = <<>>
    /\ planRun = <<>>
    /\ planOutcome = <<>>
    /\ InitLanguage

ProgressTimerFire(h, run) == ElapseAndFire(h, run) /\ UNCHANGED observer

ProgressSuccess(inv, report) == Succeed(inv, report) /\ UNCHANGED observer

NextProgress ==
    \/ \E h \in 1..MaxTimers, run \in CompletedRuns : ProgressTimerFire(h, run)
    \/ \E inv \in BagToSet(inflight), report \in ValidatorReports :
          ProgressSuccess(inv, report)

SpecProgress == InitProgress /\ [][NextProgress]_vars /\ WF_vars(NextProgress)

(***************************************************************************)
(* The analysis of the validate tool's output: one plan is dirty, its      *)
(* problem and domain are known, and the sweep that is due validates it    *)
(* against what the tool returns.  planRun is what spawnSync returns and   *)
(* planOutcome the outcome validatePlanAndReportDiagnostics returns        *)
(* (<<>> before the call, <<<<>>>> when the call throws).                  *)
(***************************************************************************)
MaxTimeStamps == 2

\* the plan under validation
AnalysisPlan == "l1"

Markers ==
    {"Plan failed to execute", "Goal not satisfied", "Bad plan description!", "Plan valid"}

\* the "Checking next happening (time T)" lines of an output, in order
TimeStampRuns == UNION {[1..n -> DOMAIN TimeTexts] : n \in 0..MaxTimeStamps}

\* the text between "Plan Repair Advice:" and "Failed plans:", as lines: nothing,
\* a line break, one or two hints on lines of their own, hints around a blank
\* line, a hint on the line of the marker
AdviceBlocks ==
    { <<"">>, <<"", "">>, <<"", "hint1", "">>, <<"", "hint1", "hint2", "">>,
      <<"hint1", "", "hint2">>, <<"hint1">> }

ToolOutputs ==
    { ToolOutput(markers, times, advice) :
        markers \in SUBSET Markers,
        times \in TimeStampRuns,
        advice \in {<<>>} \cup {<<block>> : block \in AdviceBlocks} }

ProcessErrors ==
    { [name |-> "Error", message |-> "spawnSync validate ETIMEDOUT"] }

\* what spawnSync can return: output with or without a process error, or a
\* process error and no stdout
AnalysisRuns ==
    { [error |-> error, stdout |-> <<output>>] :
        error \in {<<>>} \cup {<<e>> : e \in ProcessErrors}, output \in ToolOutputs }
    \cup { [error |-> <<[name |-> "Error", message |-> "spawn validate ENOENT"]>>,
            stdout |-> <<>>] }

\* the diagnostic an earlier validation of the plan left behind
EarlierDiagnostics == <<Diagnostic(2, <<"hint0">>, "Warning")>>

InitAnalyze ==
    /\ files = {"d1", "p1", AnalysisPlan}
    /\ status = [f \in files |-> IF f = AnalysisPlan THEN "Parsed" ELSE "Validated"]
    /\ pddlParserSettings = ParserSettings("validate.exe", "$(domain) $(problem)", "", <<>>)
    /\ validatorPath = "validate"
    /\ timeout = 1
    /\ timers = (1 :> defaultTimerDelayInSeconds * MsPerSecond)
    /\ validator = <<>>
    /\ diagnosticCollection \in {<<>>, (AnalysisPlan :> EarlierDiagnostics)}
    /\ inflight = EmptyBag
    /\ log = <<>>
    /\ burst = 0
    /\ sinceUpdated = 0
    /\ sweptAt = <<>>
    /\ planRun \in AnalysisRuns
    /\ planOutcome = <<>>
    /\ InitLanguage

\* the timer fires: the sweep validates the plan; the outcome is what the call
\* of validatePlanAndReportDiagnostics inside it returns
AnalyzeTimerFire(h) ==
    /\ h \in DOMAIN timers
    /\ planOutcome = <<>>
    /\ Assigns(validateAllDirty([Cur EXCEPT !.timers = Without(@, h)],
                                planRun))
    /\ planOutcome' =
          <<validatePlanAndReportDiagnostics(Cur, AnalysisPlan, planRun, FALSE).outcome>>
    /\ UNCHANGED <<planRun, observer>>

NextAnalyze == \E h \in 1..MaxTimers : AnalyzeTimerFire(h)

SpecAnalyze == InitAnalyze /\ [][NextAnalyze]_vars

(***************************************************************************)
(* The plan validator looking for the problem and the domain of a plan:    *)
(* the workspace may hold neither, a problem of another name or folder, a  *)
(* problem without a domain, or a problem with two candidate domains.      *)
(***************************************************************************)
LookupWorkspaces ==
    { {"l1"}, {"p1", "l1"}, {"d1", "p1", "l1"}, {"d2", "p1", "l1"},
      {"d1", "d2", "p1", "l1"}, {"d1", "p2", "l1"}, {"d1", "p3", "l1"},
      {"d1", "p1", "l2"}, {"d1", "p1", "l1", "l2"}, {"p1", "l1", "l2"} }

\* the dirty plan the sweep takes
FirstDirtyPlan == getAllFilesIf(LAMBDA l : isPlan(l) /\ status[l] = "Parsed")[1]

InitLookup ==
    /\ files \in LookupWorkspaces
    /\ status \in [files -> {"Parsed", "Validated"}]
    /\ \A f \in files : ~isPlan(f) => status[f] = "Validated"
    /\ \E l \in files : isPlan(l) /\ status[l] = "Parsed"
    /\ pddlParserSettings = ParserSettings("validate.exe", "$(domain) $(problem)", "", <<>>)
    /\ validatorPath = "validate"
    /\ timeout = 1
    /\ timers = (1 :> defaultTimerDelayInSeconds * MsPerSecond)
    /\ validator = <<>>
    /\ diagnosticCollection \in {<<>>, [l \in {g \in files : isPlan(g)} |-> EarlierDiagnostics]}
    /\ inflight = EmptyBag
    /\ log = <<>>
    /\ burst = 0
    /\ sinceUpdated = 0
    /\ sweptAt = <<>>
    /\ planRun \in PlanRuns
    /\ planOutcome = <<>>
    /\ InitLanguage

\* the timer fires: the sweep validates the first dirty plan; the outcome is
\* what the call of validatePlanAndReportDiagnostics inside it returns
LookupTimerFire(h) ==
    /\ h \in DOMAIN timers
    /\ planOutcome = <<>>
    /\ Assigns(validateAllDirty([Cur EXCEPT !.timers = Without(@, h)], planRun))
    /\ planOutcome' =
          <<validatePlanAndReportDiagnostics(Cur, FirstDirtyPlan, planRun, FALSE).outcome>>
    /\ UNCHANGED <<planRun, observer>>

NextLookup == \E h \in 1..MaxTimers : LookupTimerFire(h)

SpecLookup == InitLookup /\ [][NextLookup]_vars

(***************************************************************************)
(* The validator instance under changes of the parser settings: one domain *)
(* file is edited and validated again and again while the executable or    *)
(* service, its options, the problem pattern and the delay change.         *)
(***************************************************************************)
\* an executable, an executable whose name starts like a url scheme, and a
\* service in two spellings
CachePaths == {"validate.exe", "httpd.exe", "http://solver", "HTTPS://solver"}

CacheConfigurations ==
    { ParserSettings(path, options, pattern, delay) :
        path \in CachePaths,
        options \in {"$(domain) $(problem)", "-v"},
        pattern \in {"", "problem*.pddl"},
        delay \in {<<>>, <<1>>} }

InitCache ==
    /\ files = {"d1"}
    /\ status = [f \in files |-> "Dirty"]
    /\ pddlParserSettings \in CacheConfigurations
    /\ validatorPath = "validate"
    /\ timeout = 0
    /\ timers = <<>>
    /\ validator = <<>>
    /\ diagnosticCollection = <<>>
    /\ inflight = EmptyBag
    /\ log = <<>>
    /\ burst = 0
    /\ sinceUpdated = 0
    /\ sweptAt = <<>>
    /\ planRun = <<>>
    /\ planOutcome = <<>>
    /\ InitLanguage

CacheUpdated(f) == UpsertFile(f) /\ UNCHANGED observer

CacheTimerFire(h, run) == ElapseAndFire(h, run) /\ UNCHANGED observer

CacheConfigurationChange(configuration, run) ==
    Reconfigure(configuration, validatorPath, run) /\ UNCHANGED observer

CacheSuccess(inv, report) == Succeed(inv, report) /\ UNCHANGED observer

NextCache ==
    \/ \E f \in files : CacheUpdated(f)
    \/ \E h \in 1..MaxTimers, run \in CompletedRuns : CacheTimerFire(h, run)
    \/ \E configuration \in CacheConfigurations, run \in CompletedRuns :
          CacheConfigurationChange(configuration, run)
    \/ \E inv \in BagToSet(inflight), report \in ValidatorReports :
          CacheSuccess(inv, report)

SpecCache == InitCache /\ [][NextCache]_vars

(***************************************************************************)
(* Removal of files: the workspace emits REMOVING for a file and then      *)
(* drops it, while sweeps and validator calls go on.  A validator that was *)
(* given the file still holds its FileInfo.                                *)
(***************************************************************************)
\* the REMOVING listener, followed by the workspace dropping the file
Removing(f) ==
    /\ f \in files
    /\ LET s == clearDiagnostics(Logged(Cur, Entry("REMOVING", f, "", "", {})), f)
       IN  /\ diagnosticCollection' = s.diagnostics
           /\ log' = s.log
    /\ files' = files \ {f}
    /\ status' = [g \in files \ {f} |-> status[g]]
    /\ inflight' = SupersededIn(inflight, f)
    /\ UNCHANGED <<pddlParserSettings, validatorPath, timeout, timers, validator,
                   analysis, language>>

RemovalRemoving(f) == Removing(f) /\ UNCHANGED observer

RemovalTimerFire(h, run) == ElapseAndFire(h, run) /\ UNCHANGED observer

RemovalSuccess(inv, report) == Succeed(inv, report) /\ UNCHANGED observer

NextRemoval ==
    \/ \E f \in AllFiles : RemovalRemoving(f)
    \/ \E h \in 1..MaxTimers, run \in CompletedRuns : RemovalTimerFire(h, run)
    \/ \E inv \in BagToSet(inflight), report \in ValidatorReports :
          RemovalSuccess(inv, report)

SpecRemoval == InitProgress /\ [][NextRemoval]_vars

(***************************************************************************)
(* The language features below run on their own: the scheduler holds no    *)
(* file and does nothing.                                                  *)
(***************************************************************************)
scheduler == <<files, status, pddlParserSettings, validatorPath, timeout, timers,
               validator, diagnosticCollection, inflight, log, observer, analysis>>

InitScheduler ==
    /\ files = {}
    /\ status = <<>>
    /\ pddlParserSettings = ParserSettings("", "", "", <<>>)
    /\ validatorPath = ""
    /\ timeout = 0
    /\ timers = <<>>
    /\ validator = <<>>
    /\ diagnosticCollection = <<>>
    /\ inflight = EmptyBag
    /\ log = <<>>
    /\ burst = 0
    /\ sinceUpdated = 0
    /\ sweptAt = <<>>
    /\ planRun = <<>>
    /\ planOutcome = <<>>

(***************************************************************************)
(* ProblemObjectsView: one code lens request.  Each of the two methods     *)
(* runs up to its await, and later from the await to its return; the       *)
(* editor may cancel the token at any moment before the return.            *)
(* codeLens holds the arguments (token: isCancellationRequested; codeLens: *)
(* the class of the lens to resolve), what the awaited call yields         *)
(* (problem: the parsed problem; domain: whether a domain was found), how  *)
(* far the method is (pc), the token as it was at the call and at the      *)
(* resumption (checks), and the value returned (result).                   *)
(***************************************************************************)
\* what parseProblem can yield: nothing, a problem with or without an :objects
\* section, a problem whose syntax tree has no define node
ParsedProblems == {"undefined", "objects", "no objects", "no define"}

CodeLensClasses == {"CodeLens", "DocumentCodeLens", "DocumentInsetCodeLens"}

Return(r, value) == [r EXCEPT !.pc = "returned", !.result = value]

\* provideCodeLenses up to the await of parseProblem
provideCodeLensesCalled(r) ==
    IF r.token THEN Return(r, "null")
    ELSE [r EXCEPT !.pc = "awaiting"]

\* variant: the token is not looked at after the await
provideCodeLensesResumedUnchecked(r) ==
    IF r.problem = "undefined" THEN Return(r, "[]")
    ELSE IF r.problem = "no define" THEN [r EXCEPT !.pc = "thrown"]
    ELSE IF r.problem = "objects" THEN Return(r, "[DocumentCodeLens]")
    ELSE Return(r, "[]")

\* provideCodeLenses from the await on
provideCodeLensesResumed(r) ==
    IF r.token THEN Return(r, "null")
    ELSE IF r.problem = "undefined" THEN Return(r, "[]")
    \* getDefineNodeOrThrow
    ELSE IF r.problem = "no define" THEN [r EXCEPT !.pc = "thrown"]
    ELSE IF r.problem = "objects" THEN Return(r, "[DocumentCodeLens]")
    ELSE Return(r, "[]")

\* resolveCodeLens up to the await of getProblemAndDomain
resolveCodeLensCalled(r) ==
    IF r.codeLens = "CodeLens" THEN Return(r, "null")
    ELSE IF r.token THEN Return(r, "null")
    ELSE [r EXCEPT !.pc = "awaiting"]

\* resolveCodeLens from the await on
resolveCodeLensResumed(r) ==
    IF ~r.domain THEN Return(r, "null")
    ELSE IF r.token THEN Return(r, "null")
    ELSE IF r.codeLens = "DocumentInsetCodeLens" THEN Return(r, "View inset")
    ELSE Return(r, "View")

CodeLensRequests ==
    [ call : {"provideCodeLenses", "resolveCodeLens"},
      token : BOOLEAN,
      codeLens : CodeLensClasses,
      problem : ParsedProblems,
      domain : BOOLEAN,
      pc : {"called"},
      checks : {<<>>},
      result : {"pending"} ]

InitCodeLens ==
    /\ InitScheduler
    /\ codeLens \in CodeLensRequests
    /\ typeObjectMap = <<>>
    /\ added = <<>>
    /\ constants = <<>>
    /\ objects = <<>>
    /\ allTypeObjects = <<>>
    /\ typeInheritance = <<>>
    /\ typesInheriting = <<>>

OtherThanCodeLens ==
    <<scheduler, typeObjectMap, added, constants, objects, allTypeObjects,
      typeInheritance, typesInheriting>>

\* the editor calls the method: it runs to its await or returns
CodeLensCalled ==
    /\ codeLens.pc = "called"
    /\ LET r == [codeLens EXCEPT !.checks = Append(@, codeLens.token)]
       IN  codeLens' = IF r.call = "provideCodeLenses"
                       THEN provideCodeLensesCalled(r)
                       ELSE resolveCodeLensCalled(r)
    /\ UNCHANGED OtherThanCodeLens

\* the awaited call completes: the method runs to its return
CodeLensResumed ==
    /\ codeLens.pc = "awaiting"
    /\ LET r == [codeLens EXCEPT !.checks = Append(@, codeLens.token)]
       IN  codeLens' = IF r.call = "provideCodeLenses"
                       THEN provideCodeLensesResumed(r)
                       ELSE resolveCodeLensResumed(r)
    /\ UNCHANGED OtherThanCodeLens

\* the editor cancels the request
CodeLensCancelled ==
    /\ codeLens.pc \in {"called", "awaiting"}
    /\ ~codeLens.token
    /\ codeLens' = [codeLens EXCEPT !.token = TRUE]
    /\ UNCHANGED OtherThanCodeLens

NextCodeLens == CodeLensCalled \/ CodeLensResumed \/ CodeLensCancelled

SpecCodeLens == InitCodeLens /\ [][NextCodeLens]_vars

(***************************************************************************)
(* TypeObjectMap: the types in the order they were first added, each with  *)
(* its objects in the order they were first added (typeObjects), and the   *)
(* type each object belongs to (typeOf).  The types added to one map do    *)
(* not differ only in case.                                                *)
(***************************************************************************)
MaxAdded == 3

TypeNames == {"type1", "type2"}

\* the names getTypeCaseInsensitive and getTypeOf are asked for
QueriedTypes == TypeNames \cup {"TYPE1", "fictitious"}

ObjectNames == {"object1", "Object1", "object2"}

QueriedObjects == ObjectNames \cup {"fictitious"}

\* new TypeObjectMap()
NewTypeObjectMap == [typeObjects |-> <<>>, typeOf |-> <<>>]

\* TypeObjectMap.length
length(map) == Len(map.typeObjects)

\* TypeObjectMap.getTypeCaseInsensitive: <<>> is undefined
getTypeCaseInsensitive(map, type) ==
    Find(map.typeObjects, LAMBDA e : toLowerCase(e.type) = toLowerCase(type))

\* TypeObjectMap.getTypeOf: <<>> is undefined
getTypeOf(map, object) ==
    IF object \in DOMAIN map.typeOf
    THEN getTypeCaseInsensitive(map, map.typeOf[object])
    ELSE <<>>

\* TypeObjects.getObjects
getObjects(entry) == entry.objects

\* variant: the object is appended whether or not the list holds it
addObjectAgain(entry, object) ==
    [entry EXCEPT !.objects = Append(@, object)]

\* variant: a new object goes to the front of the list
addObjectInFront(entry, object) ==
    IF object \in Range(entry.objects) THEN entry
    ELSE [entry EXCEPT !.objects = <<object>> \o @]

\* TypeObjects.addObject
addObject(entry, object) ==
    IF object \in Range(entry.objects) THEN entry
    ELSE [entry EXCEPT !.objects = Append(@, object)]

\* the map with the entry of the type replaced, or appended when it has none
Upsert(map, entry) ==
    IF getTypeCaseInsensitive(map, entry.type) = <<>>
    THEN [map EXCEPT !.typeObjects = Append(@, entry)]
    ELSE [map EXCEPT !.typeObjects =
            [i \in DOMAIN @ |->
                IF toLowerCase(@[i].type) = toLowerCase(entry.type) THEN entry ELSE @[i]]]

\* variant: the object belongs to the type it was added to last
addLastWins(map, type, object) ==
    LET found == getTypeCaseInsensitive(map, type)
        entry == IF found = <<>> THEN [type |-> type, objects |-> <<>>] ELSE found[1]
        map1 == Upsert(map, addObject(entry, object))
    IN  [map1 EXCEPT !.typeOf = (object :> entry.type) @@ @]

\* TypeObjectMap.add
add(map, type, object) ==
    LET found == getTypeCaseInsensitive(map, type)
        entry == IF found = <<>> THEN [type |-> type, objects |-> <<>>] ELSE found[1]
        map1 == Upsert(map, addObject(entry, object))
    IN  IF object \in DOMAIN map1.typeOf THEN map1
        ELSE [map1 EXCEPT !.typeOf = @ @@ (object :> entry.type)]

RECURSIVE addAll(_, _, _)
\* TypeObjectMap.addAll
addAll(map, type, objectNames) ==
    IF objectNames = <<>> THEN map
    ELSE addAll(add(map, type, Head(objectNames)), type, Tail(objectNames))

\* the lists addAll is called with
ObjectLists ==
    {<<o>> : o \in ObjectNames} \cup {<<o1, o2>> : o1 \in ObjectNames, o2 \in ObjectNames}

InitIndex ==
    /\ InitScheduler
    /\ typeObjectMap = NewTypeObjectMap
    /\ added = <<>>
    /\ codeLens = <<>>
    /\ constants = <<>>
    /\ objects = <<>>
    /\ allTypeObjects = <<>>
    /\ typeInheritance = <<>>
    /\ typesInheriting = <<>>

OtherThanIndex ==
    <<scheduler, codeLens, constants, objects, allTypeObjects, typeInheritance,
      typesInheriting>>

IndexAdd(type, object) ==
    /\ Len(added) < MaxAdded
    /\ typeObjectMap' = add(typeObjectMap, type, object)
    /\ added' = Append(added, <<type, object>>)
    /\ UNCHANGED OtherThanIndex

IndexAddAll(type, objectNames) ==
    /\ Len(added) + Len(objectNames) <= MaxAdded
    /\ typeObjectMap' = addAll(typeObjectMap, type, objectNames)
    /\ added' = added \o [i \in DOMAIN objectNames |-> <<type, objectNames[i]>>]
    /\ UNCHANGED OtherThanIndex

NextIndex ==
    \/ \E type \in TypeNames, object \in ObjectNames : IndexAdd(type, object)
    \/ \E type \in TypeNames, objectNames \in ObjectLists : IndexAddAll(type, objectNames)

SpecIndex == InitIndex /\ [][NextIndex]_vars

(***************************************************************************)
(* TypeObjects.concatObjects: the constants of the domain and the objects  *)
(* of the problem, merged per type.                                        *)
(***************************************************************************)
RECURSIVE addAllObjects(_, _)
\* TypeObjects.addAllObjects
addAllObjects(entry, objectNames) ==
    IF objectNames = <<>> THEN entry
    ELSE addAllObjects(addObject(entry, Head(objectNames)), Tail(objectNames))

RECURSIVE mergeObjects(_, _)
\* every entry of typeObjects, in turn, is added to the merged entry of its
\* type, which is created at the end of the merged list when it is missing
mergeObjects(mergedObjects, typeObjects) ==
    IF typeObjects = <<>> THEN mergedObjects
    ELSE LET typeObj == Head(typeObjects)
             at == {i \in DOMAIN mergedObjects : mergedObjects[i].type = typeObj.type}
             typeFound == CHOOSE i \in at : TRUE
         IN  mergeObjects(
                 IF at = {}
                 THEN Append(mergedObjects,
                        addAllObjects([type |-> typeObj.type, objects |-> <<>>],
                                      getObjects(typeObj)))
                 ELSE [mergedObjects EXCEPT
                        ![typeFound] = addAllObjects(@, getObjects(typeObj))],
                 Tail(typeObjects))

\* variant: the objects of the problem are merged before the constants
concatObjectsProblemFirst(domainConstants, problemObjects) ==
    mergeObjects(<<>>, problemObjects \o domainConstants)

\* TypeObjects.concatObjects
concatObjects(domainConstants, problemObjects) ==
    mergeObjects(<<>>, domainConstants \o problemObjects)

\* the object lists a type comes with
ConcatLists ==
    {<<"a">>, <<"b">>, <<"a", "b">>, <<"b", "a">>, <<"b", "c">>, <<"c", "a", "b">>}

\* the per-type lists of a domain or a problem: no type comes twice
TypeObjectsLists ==
    {<<>>}
    \cup {<<[type |-> t, objects |-> l]>> : t \in TypeNames, l \in ConcatLists}
    \cup {<<[type |-> t1, objects |-> l1], [type |-> t2, objects |-> l2]>> :
            <<t1, t2>> \in {tt \in TypeNames \X TypeNames : tt[1] # tt[2]},
            <<l1, l2>> \in ConcatLists \X ConcatLists}

InitConcat ==
    /\ InitScheduler
    /\ constants \in TypeObjectsLists
    /\ objects \in TypeObjectsLists
    /\ allTypeObjects = <<>>
    /\ codeLens = <<>>
    /\ typeObjectMap = <<>>
    /\ added = <<>>
    /\ typeInheritance = <<>>
    /\ typesInheriting = <<>>

OtherThanConcat ==
    <<scheduler, codeLens, typeObjectMap, added, typeInheritance, typesInheriting>>

\* createSymmetricInit, the constructor of the objects view
ConcatCalled ==
    /\ allTypeObjects = <<>>
    /\ allTypeObjects' = <<concatObjects(constants, objects)>>
    /\ UNCHANGED <<constants, objects>>
    /\ UNCHANGED OtherThanConcat

NextConcat == ConcatCalled

SpecConcat == InitConcat /\ [][NextConcat]_vars

(***************************************************************************)
(* The types inheriting from a type, over the child -> parent edges of the *)
(* domain, and getTypesInvolved, which asks for them.                      *)
(***************************************************************************)
HierarchyTypes == {"object", "a", "b", "c"}

\* the types of the parameters asked about: one is not in the hierarchy
ParameterTypes == HierarchyTypes \cup {"fictitious"}

\* the types with an edge to the type, in the order of the edges
getVerticesWithEdgesTo(edges, type) ==
    LET RECURSIVE From(_)
        From(rest) ==
            IF rest = <<>> THEN <<>>
            ELSE (IF Head(rest)[2] = type THEN <<Head(rest)[1]>> ELSE <<>>)
                 \o From(Tail(rest))
    IN  From(edges)

\* variant: the direct children only
getTypesInheritingFromDirectly(edges, type) == getVerticesWithEdgesTo(edges, type)

RECURSIVE getTypesInheritingFrom(_, _)
\* DomainInfo.getTypesInheritingFrom: the children of the type and, before
\* them, the types inheriting from each child
getTypesInheritingFrom(edges, type) ==
    LET vertices == getVerticesWithEdgesTo(edges, type)
        RECURSIVE Subtree(_)
        Subtree(rest) ==
            IF rest = <<>> THEN <<>>
            ELSE getTypesInheritingFrom(edges, Head(rest)) \o Subtree(Tail(rest))
    IN  Subtree(vertices) \o vertices

RECURSIVE distinct(_)
\* filter((v, i, a) => a.indexOf(v) === i)
distinct(list) ==
    IF list = <<>> THEN <<>>
    ELSE LET front == distinct(SubSeq(list, 1, Len(list) - 1))
             last == list[Len(list)]
         IN  IF last \in Range(front) THEN front ELSE Append(front, last)

\* CompletionCollector.getTypesInvolved, from the types of the parameters on
\* (typesDirectlyInvolved, typesInheriting and the list returned)
getTypesInvolved(parameterTypes, edges) ==
    LET typesDirectlyInvolved == distinct(parameterTypes)
        RECURSIVE FlatMap(_)
        FlatMap(rest) ==
            IF rest = <<>> THEN <<>>
            ELSE getTypesInheritingFrom(edges, Head(rest)) \o FlatMap(Tail(rest))
        inheriting == FlatMap(typesDirectlyInvolved)
    IN  [typesDirectlyInvolved |-> typesDirectlyInvolved,
         typesInheriting |-> inheriting,
         returned |-> inheriting \o typesDirectlyInvolved]

\* no type is its own ancestor along the edges of the set
Acyclic(edgeSet) ==
    LET RECURSIVE Above(_, _)
        Above(type, steps) ==
            IF steps = 0 THEN {}
            ELSE LET parents == {e[2] : e \in {d \in edgeSet : d[1] = type}}
                 IN  parents \cup UNION {Above(p, steps - 1) : p \in parents}
    IN  \A type \in HierarchyTypes : type \notin Above(type, Cardinality(HierarchyTypes))

\* the edge sets of single inheritance: a type has at most one parent
InheritanceTrees ==
    {edgeSet \in SUBSET {e \in HierarchyTypes \X HierarchyTypes : e[1] # e[2]} :
        /\ \A e1, e2 \in edgeSet : e1[1] = e2[1] => e1 = e2
        /\ Acyclic(edgeSet)}

\* the edges of a set in every order
OrdersOf(edgeSet) ==
    {order \in [1..Cardinality(edgeSet) -> edgeSet] :
        \A i, j \in DOMAIN order : order[i] = order[j] => i = j}

\* the types of the parameters of the variables asked about
ParameterLists ==
    {<<t>> : t \in ParameterTypes} \cup (ParameterTypes \X ParameterTypes)

InitInherit ==
    /\ InitScheduler
    /\ typeInheritance \in UNION {OrdersOf(edgeSet) : edgeSet \in InheritanceTrees}
    /\ typesInheriting = <<>>
    /\ codeLens = <<>>
    /\ typeObjectMap = <<>>
    /\ added = <<>>
    /\ constants = <<>>
    /\ objects = <<>>
    /\ allTypeObjects = <<>>

OtherThanInherit ==
    <<scheduler, codeLens, typeObjectMap, added, constants, objects, allTypeObjects>>

TypesInvolvedCalled(parameterTypes) ==
    /\ typesInheriting = <<>>
    /\ typesInheriting' = <<getTypesInvolved(parameterTypes, typeInheritance)>>
    /\ UNCHANGED typeInheritance
    /\ UNCHANGED OtherThanInherit

NextInherit == \E parameterTypes \in ParameterLists : TypesInvolvedCalled(parameterTypes)

SpecInherit == InitInherit /\ [][NextInherit]_vars

(***************************************************************************)
(* Reading the log of the last handler run.                                *)
(***************************************************************************)
LogOps(op) == {i \in DOMAIN log : log[i].op = op}

\* the last handler ran validateAllDirty
IsSweep == LogOps("validateAllDirty") # {}

\* the files that were dirty (Parsed) when the sweep started
DirtyAtSweep == UNION {log[i].with : i \in LogOps("validateAllDirty")}

DirtyOfKind(kind) == {f \in DirtyAtSweep : FileInfos[f].kind = kind}

\* the files the sweep passed to validateUnknownFile, validatePddlDocument or validatePlan
HandledOfKind(kind) ==
    {log[i].file : i \in {j \in LogOps("validateUnknownFile") \cup
                                LogOps("validatePddlDocument") \cup
                                LogOps("validatePlan") :
                            FileInfos[log[j].file].kind = kind}}

\* the first file of a non-empty set in the order of the workspace
FirstOf(S) ==
    FileOrder[CHOOSE i \in DOMAIN FileOrder :
                /\ FileOrder[i] \in S
                /\ \A j \in DOMAIN FileOrder : FileOrder[j] \in S => i <= j]

\* the external validator invocations of the last handler run
ExternalCalls == LogOps("validate") \cup LogOps("spawnSync")

Tiers == {"unknown", "domain", "problem", "plan"}

(***************************************************************************)
(* Properties of the validation scheduler.                                 *)
(***************************************************************************)

\* C1 (SpecDebounce): a burst of N >= 1 UPDATED events, each arriving within the
\* delay of the one before, is followed by exactly one sweep; it runs when the
\* delay has passed since the last event of the burst, and no sweep runs before.
C1_Debounce ==
    burst >= 1 =>
        /\ Len(sweptAt) <= 1
        /\ sweptAt # <<>> => sweptAt[1] = DebounceDelay
        /\ sinceUpdated < DebounceDelay => sweptAt = <<>>
        /\ sinceUpdated > DebounceDelay => Len(sweptAt) = 1

\* a burst of several events has been followed by its sweep
C1_BurstSwept == burst >= 2 /\ Len(sweptAt) = 1 /\ IsSweep

\* C2 (Spec): at most one validation-sweep timer is pending in every reachable
\* state, whatever the interleaving of UPDATED events, rescheduling callbacks
\* and configuration changes.
C2_SingleTimer == Cardinality(DOMAIN timers) <= 1

\* a rescheduling success callback has cancelled a pending timer and armed its own
C2_CallbackReplacedTimer ==
    /\ \E i \in LogOps("onSuccess") : log[i].flag
    /\ \E i \in LogOps("clearTimeout") : log[i].from = "pending"
    /\ Cardinality(DOMAIN timers) = 1

\* C3 (Spec): a sweep handles every dirty unknown file before it invokes any
\* validator; when a dirty domain exists it dispatches no problem and no plan;
\* otherwise it dispatches a dirty problem before a dirty plan.
C3_PriorityOrder ==
    IsSweep =>
        /\ DirtyOfKind("unknown") \subseteq HandledOfKind("unknown")
        /\ \A i \in LogOps("validateUnknownFile") :
              \A j \in ExternalCalls \cup LogOps("validatePddlDocument")
                                     \cup LogOps("validatePlan") : i < j
        /\ DirtyOfKind("domain") # {} =>
              /\ HandledOfKind("problem") = {}
              /\ HandledOfKind("plan") = {}
              /\ LogOps("spawnSync") = {}
        /\ (DirtyOfKind("domain") = {} /\ DirtyOfKind("problem") # {}
                                       /\ DirtyOfKind("plan") # {}) =>
              /\ HandledOfKind("problem") # {}
              /\ HandledOfKind("plan") # {}
        /\ \A i \in LogOps("validatePddlDocument"), j \in LogOps("validatePlan") : i < j

\* a sweep that found a dirty domain, a dirty problem and a dirty plan has
\* invoked the validator for the domain
C3_DomainBeforeOthers ==
    /\ IsSweep
    /\ \A tier \in {"domain", "problem", "plan"} : DirtyOfKind(tier) # {}
    /\ \E i \in LogOps("validate") : log[i].file \in DirtyOfKind("domain")

\* C4 as stated: for every tier with dirty files the sweep validates exactly one
\* file of the tier, the first.
C4_OnePerTier ==
    IsSweep =>
        \A tier \in Tiers :
            HandledOfKind(tier) =
                IF DirtyOfKind(tier) # {} THEN {FirstOf(DirtyOfKind(tier))} ELSE {}

\* the files a validator call of the sweep was given along with the domain
Bundled == UNION {log[i].with : i \in LogOps("validate")}

\* C4 (Spec): a sweep validates every dirty unknown file; when a dirty domain
\* exists it dispatches the first dirty domain and no problem or plan; otherwise
\* it dispatches the first dirty problem and the first dirty plan.  Every other
\* dirty file that is not bundled with the dispatched domain stays dirty.
C4_PerTierPicks ==
    IsSweep =>
        /\ HandledOfKind("unknown") = DirtyOfKind("unknown")
        /\ HandledOfKind("domain") =
              IF DirtyOfKind("domain") # {} THEN {FirstOf(DirtyOfKind("domain"))} ELSE {}
        /\ \A tier \in {"problem", "plan"} :
              HandledOfKind(tier) =
                  IF DirtyOfKind("domain") = {} /\ DirtyOfKind(tier) # {}
                  THEN {FirstOf(DirtyOfKind(tier))} ELSE {}
        /\ \A f \in DirtyAtSweep :
              (f \notin Bundled /\ \A tier \in Tiers : f \notin HandledOfKind(tier))
                  => status[f] = "Parsed"

\* a sweep has validated two dirty unknown files and left a second dirty domain
C4_TwoUnknownsOneSweep ==
    /\ IsSweep
    /\ Cardinality(DirtyOfKind("unknown")) = 2
    /\ Cardinality(HandledOfKind("unknown")) = 2
    /\ DirtyOfKind("domain") # {}

\* C5 as stated: after a validator callback of a dispatch that left dirty files
\* of the tier behind, on success or on error, another sweep is scheduled.
C5_CallbackReschedules ==
    \A i \in LogOps("onSuccess") \cup LogOps("onError") :
        log[i].flag => DOMAIN timers # {}

\* C6 as stated (SpecProgress): every dirty file is eventually picked up by a sweep.
C6_Progress == <>(\A f \in files : status[f] # "Parsed")

DirtyProblemsOf(d) ==
    {p \in files : /\ isProblem(p)
                   /\ FileInfos[p].folder = FileInfos[d].folder
                   /\ toLowerCase(FileInfos[p].ref) = toLowerCase(FileInfos[d].name)
                   /\ p \in DirtyAtSweep}

C9_ValidatedFromValidating ==
    \A i \in LogOps("setStatus") :
        log[i].to = "Validated" => log[i].from = "Validating"

\* C9 (Spec): the scheduler writes Validated over Validating, except that a
\* dirty problem with no or several candidate domains goes from Parsed to
\* Validated; it never writes Validated over Dirty.
C9_ValidatedWrites ==
    \A i \in LogOps("setStatus") :
        log[i].to = "Validated" =>
            \/ log[i].from = "Validating"
            \/ /\ log[i].from = "Parsed"
               /\ isProblem(log[i].file)
               /\ Len(getDomainFilesFor(log[i].file)) # 1

\* a sweep has moved a problem without a domain from Parsed to Validated
C9_ProblemWithoutDomain ==
    \E i \in LogOps("setStatus") :
        /\ log[i].to = "Validated"
        /\ log[i].from = "Parsed"
        /\ isProblem(log[i].file)

\* the calls in flight that hold the current FileInfo of f
OutstandingWith(f) ==
    {inv \in BagToSet(inflight) : f \in FilesOf(inv) \ inv.stale}

\* C10 as stated: no file is held by two outstanding validator calls.
C10_OneOutstandingCall ==
    \A f \in files :
        /\ Cardinality(OutstandingWith(f)) <= 1
        /\ \A inv \in OutstandingWith(f) : CopiesIn(inv, inflight) = 1

\* C11 (SpecProgress): when a sweep picks a dirty problem whose folder holds no
\* domain, or several domains, with the name the problem refers to, the problem
\* ends Validated without having been Validating, exactly one diagnostic, of
\* severity Information, is published for it, and no validator call is made.
C11_UnresolvedProblem ==
    IsSweep =>
        \A i \in LogOps("validatePddlDocument") :
            LET p == log[i].file
            IN  (isProblem(p) /\ Len(getDomainFilesFor(p)) # 1) =>
                    /\ status[p] = "Validated"
                    /\ \A j \in LogOps("setStatus") :
                          (j > i /\ log[j].file = p) => log[j].to = "Validated"
                    /\ p \in DOMAIN diagnosticCollection
                    /\ Len(diagnosticCollection[p]) = 1
                    /\ diagnosticCollection[p][1].severity = "Information"
                    /\ LogOps("validate") = {}

\* a sweep has picked a dirty problem with two candidate domains
C11_AmbiguousDomain ==
    /\ IsSweep
    /\ \E i \in LogOps("validatePddlDocument") :
          /\ isProblem(log[i].file)
          /\ Len(getDomainFilesFor(log[i].file)) > 1
          /\ status[log[i].file] = "Validated"

(***************************************************************************)
(* Properties of the plan validator.                                       *)
(***************************************************************************)
\* the outcome the call has returned, when it has returned one
Returned == planOutcome # <<>> /\ planOutcome[1] # <<>>

Outcome == planOutcome[1][1]

\* the call has been made and the process it started failed
ProcessFailed == planOutcome # <<>> /\ planRun.error # <<>>

\* C12 (SpecAnalyze): when the process of the plan validator fails, the call of
\* validatePlanAndReportDiagnostics returns an outcome whose error string is set,
\* and no exception or rejected promise leaves it.
C12_FailureYieldsOutcome ==
    ProcessFailed =>
        /\ LogOps("throw") = {}
        /\ Returned
        /\ Outcome.error # <<>>

\* C13 (SpecAnalyze): after a sweep whose plan validation ended in a failure of
\* the external tool, an error notification has been shown, exactly one
\* diagnostic, of severity Error and reporting the failure, is published for the
\* plan, and no further pass is scheduled.
C13_FailureNotifiedAndPublished ==
    ProcessFailed =>
        /\ LogOps("showErrorMessage") # {}
        /\ AnalysisPlan \in DOMAIN diagnosticCollection
        /\ Len(diagnosticCollection[AnalysisPlan]) = 1
        /\ diagnosticCollection[AnalysisPlan][1].severity = "Error"
        /\ diagnosticCollection[AnalysisPlan][1].message[1] = "Validate tool failed. "
        /\ DOMAIN timers = {}

\* the output the tool wrote, when the call got one
Output == planRun.stdout[1]

\* the output reports that the plan fails
ReportsFailure ==
    \/ "Plan failed to execute" \in Output.markers
    \/ "Goal not satisfied" \in Output.markers

\* C14 (SpecAnalyze): when the process reported an error and the call returns,
\* the outcome is that of a failed tool whatever the output says: one diagnostic,
\* of severity Error on line 0, and an error string that starts with
\* "Validate tool failed. ".
C14_ProcessErrorWins ==
    (Returned /\ planRun.error # <<>>) =>
        /\ Len(Outcome.diagnostics) = 1
        /\ Outcome.diagnostics[1].line = 0
        /\ Outcome.diagnostics[1].severity = "Error"
        /\ Outcome.diagnostics[1].message[1] = "Validate tool failed. "
        /\ Outcome.error # <<>>
        /\ Outcome.error[1] = "Validate tool failed. "

\* the process reported an error although its output says the plan is valid
C14_ErrorWithValidOutput ==
    /\ Returned
    /\ planRun.error # <<>>
    /\ Output.markers = {"Plan valid"}

\* the number the text of the last "Checking next happening" line denotes
LastHappening == TimeTexts[Output.times[Len(Output.times)]]

\* C15 (SpecAnalyze): when the output of a failing plan holds several "Checking
\* next happening (time T)" lines and a step of the plan starts within the
\* tolerance of the T of the last one, every diagnostic is on the line of that step.
C15_AnchoredAtLastHappening ==
    (Returned /\ planRun.error = <<>> /\ ReportsFailure /\ Len(Output.times) >= 2) =>
        \A step \in Range(PlanSteps(AnalysisPlan)) :
            Abs(step.time - LastHappening) < Tolerance =>
                \A i \in DOMAIN Outcome.diagnostics :
                    Outcome.diagnostics[i].line = step.lineIndex

\* the time stamp lines of the output that the pattern matches, by position
MatchedHappenings == {i \in DOMAIN Output.times : MatchesTimeStamp(Output.times[i])}

\* the line the diagnostics of a failing plan belong on: that of the first step
\* starting within the tolerance of the last matched time stamp, 0 without one
ExpectedLine ==
    IF MatchedHappenings = {} THEN 0
    ELSE LET last == CHOOSE i \in MatchedHappenings : \A j \in MatchedHappenings : j <= i
             at == TimeTexts[Output.times[last]]
             near == {k \in DOMAIN PlanSteps(AnalysisPlan) :
                        Abs(PlanSteps(AnalysisPlan)[k].time - at) < Tolerance}
         IN  IF near = {} THEN 0
             ELSE PlanSteps(AnalysisPlan)[CHOOSE k \in near : \A j \in near : k <= j].lineIndex

GenericHint == "Unidentified error. Run the 'PDDL: Validate plan' command for more info."

\* the hint lines of the output: the lines of the advice block from its first
\* to its last line that is not blank (one blank line when all are blank); the
\* generic hint when the output has no block or nothing between the two markers
ExpectedHints ==
    IF Output.advice = <<>> \/ Output.advice[1] = <<"">> THEN <<GenericHint>>
    ELSE LET block == Output.advice[1]
             inked == {i \in DOMAIN block : block[i] # ""}
         IN  IF inked = {} THEN <<"">>
             ELSE LET first == CHOOSE i \in inked : \A j \in inked : i <= j
                      last == CHOOSE i \in inked : \A j \in inked : j <= i
                  IN  [k \in 1..(last - first + 1) |-> block[first + k - 1]]

C17_InvalidPlanDescription ==
    (/\ Returned
     /\ planRun.error = <<>>
     /\ ~ReportsFailure
     /\ "Bad plan description!" \in Output.markers) =>
        /\ Len(Outcome.diagnostics) = 1
        /\ Outcome.diagnostics[1].line = 0
        /\ Outcome.diagnostics[1].severity = "Error"
        /\ Outcome.diagnostics[1].message = <<"Invalid plan description.">>
        /\ Outcome.error = <<"Invalid plan description.">>

\* the tool rejected the plan description and the diagnostic was published
C17_BadPlanPublished ==
    /\ Returned
    /\ planRun.error = <<>>
    /\ Output.markers = {"Bad plan description!"}
    /\ AnalysisPlan \in DOMAIN diagnosticCollection
    /\ Len(diagnosticCollection[AnalysisPlan]) = 1
    /\ diagnosticCollection[AnalysisPlan][1].severity = "Error"

\* C18 (SpecAnalyze): for an output without process error whose only marker is
\* "Plan valid", the outcome has no diagnostic and no error string, and the
\* published diagnostics hold an empty list for the plan, whatever was published
\* for it before.
C18_ValidPlanClears ==
    (Returned /\ planRun.error = <<>> /\ Output.markers = {"Plan valid"}) =>
        /\ Outcome.diagnostics = <<>>
        /\ Outcome.error = <<>>
        /\ AnalysisPlan \in DOMAIN diagnosticCollection
        /\ diagnosticCollection[AnalysisPlan] = <<>>

\* a plan was found valid and the list published for it is empty
C18_ValidPlanPublished ==
    /\ Returned
    /\ planRun.error = <<>>
    /\ Output.markers = {"Plan valid"}
    /\ LogOps("onSuccess") # {}
    /\ diagnosticCollection = (AnalysisPlan :> <<>>)

\* C19 (SpecAnalyze): for an output without process error that holds none of
\* the markers, the outcome has exactly one diagnostic, of severity Warning on
\* line 0, reporting an unknown error; its severity and error string differ
\* from those of a failed tool.
C19_UnknownOutput ==
    (Returned /\ planRun.error = <<>> /\ Output.markers = {}) =>
        /\ Len(Outcome.diagnostics) = 1
        /\ Outcome.diagnostics[1].line = 0
        /\ Outcome.diagnostics[1].severity = "Warning"
        /\ Outcome.diagnostics[1].severity # "Error"
        /\ Outcome.diagnostics[1].message[1] =
              "Unknown error. Run the 'PDDL: Validate plan' command for more information."
        /\ Outcome.error = <<"Unknown error.">>
        /\ Outcome.error[1] # "Validate tool failed. "

\* an output without any marker was analysed and its warning published
C19_UnknownPublished ==
    /\ Returned
    /\ planRun.error = <<>>
    /\ Output.markers = {}
    /\ AnalysisPlan \in DOMAIN diagnosticCollection
    /\ Len(diagnosticCollection[AnalysisPlan]) = 1
    /\ diagnosticCollection[AnalysisPlan][1].severity = "Warning"

\* the case the markers of the run call for, in the order of their priority
ExpectedCase ==
    IF planRun.error # <<>> THEN "failed"
    ELSE IF Output.markers \cap {"Plan failed to execute", "Goal not satisfied"} # {}
    THEN "failedAtTime"
    ELSE IF "Bad plan description!" \in Output.markers THEN "invalidPlanDescription"
    ELSE IF "Plan valid" \in Output.markers THEN "valid"
    ELSE "unknown"

\* the case an outcome belongs to, read off its error string and diagnostics
OutcomeCase ==
    IF Outcome.error # <<>> /\ Outcome.error[1] = "Validate tool failed. " THEN "failed"
    ELSE IF Outcome.error = <<"Invalid plan description.">> THEN "invalidPlanDescription"
    ELSE IF Outcome.error = <<"Unknown error.">> THEN "unknown"
    ELSE IF Outcome.error = <<>> /\ Outcome.diagnostics = <<>> THEN "valid"
    ELSE IF /\ Outcome.error = <<>>
            /\ \A i \in DOMAIN Outcome.diagnostics :
                  Outcome.diagnostics[i].severity = "Warning"
    THEN "failedAtTime"
    ELSE "none"

\* C20 (SpecAnalyze): whatever subset of the markers an output holds, and with
\* or without a process error, the outcome is that of the case of highest
\* priority: process error, then a failure marker, then "Bad plan
\* description!", then "Plan valid", then unknown.
C20_HighestPriorityCase == Returned => OutcomeCase = ExpectedCase

\* an output with all four markers was analysed as a failing plan
C20_AllMarkers ==
    /\ Returned
    /\ planRun.error = <<>>
    /\ Output.markers = Markers
    /\ OutcomeCase = "failedAtTime"

(***************************************************************************)
(* Properties of the validator instance.                                   *)
(***************************************************************************)
\* the scheme a path starts with, in lower case ("" when it has none)
SchemeOf(path) ==
    CASE path = "http://solver" -> "http"
      [] path = "HTTPS://solver" -> "https"
      [] OTHER -> ""

NewValidators == {"new ValidatorService", "new ValidatorExecutable"}

\* C21 (SpecCache): a handler that calls createValidator gets the instance the
\* scheduler holds, and no instance is created, when that instance was made for
\* the configured path and, for an executable, the configured options and
\* problem pattern; an instance is created only when one of these differs or
\* none is held; the instance it gets is a service exactly when the path starts
\* with http: or https: in any case, else an executable.
C21_CachedValidator ==
    [][ LET called == \E i \in DOMAIN log' : log'[i].op = "validate"
            created == \E i \in DOMAIN log' : log'[i].op \in NewValidators
            set == pddlParserSettings'
            unchanged ==
                /\ validator # <<>>
                /\ validator[1].path = set.executableOrService
                /\ validator[1].kind = "ValidatorExecutable" =>
                      /\ validator[1].syntax = set.executableOptions
                      /\ validator[1].customPattern = set.problemPattern
        IN  called =>
                /\ unchanged => (~created /\ validator' = validator)
                /\ created => ~unchanged
                /\ validator' # <<>>
                /\ validator'[1].kind \in {"ValidatorService", "ValidatorExecutable"}
                /\ validator'[1].kind = "ValidatorService" <=>
                      SchemeOf(set.executableOrService) \in {"http", "https"}
      ]_vars

\* a handler called createValidator and got the service instance made earlier
C21_ServiceReused ==
    /\ \E i \in DOMAIN log : log[i].op = "validate"
    /\ ~\E i \in DOMAIN log : log[i].op \in NewValidators
    /\ validator # <<>>
    /\ validator[1].kind = "ValidatorService"
    /\ validator[1].path = "HTTPS://solver"

\* C22 (SpecRemoval): the step that removes a file deletes the published
\* diagnostics of that file and leaves those of every other file as they were;
\* diagnostics of a removed file are published again only by a step that
\* delivers a validator callback for a call that was given the file.
C22_RemovingClearsOne ==
    [][ \A f \in AllFiles :
          /\ (f \in files /\ f \notin files') =>
                /\ DOMAIN diagnosticCollection' = DOMAIN diagnosticCollection \ {f}
                /\ \A g \in DOMAIN diagnosticCollection' :
                      diagnosticCollection'[g] = diagnosticCollection[g]
          /\ (f \notin files /\ f \notin DOMAIN diagnosticCollection
                /\ f \in DOMAIN diagnosticCollection') =>
                \E i \in DOMAIN log' :
                    /\ log'[i].op = "onSuccess"
                    /\ f \in {log'[i].file} \cup log'[i].with
      ]_vars

\* a file was removed; nothing is published for it, and the diagnostics of
\* another file are still published
C22_RemovedOthersKept ==
    \E f \in AllFiles \ files :
        /\ log # <<>>
        /\ log[1].op = "REMOVING"
        /\ log[1].file = f
        /\ f \notin DOMAIN diagnosticCollection
        /\ \E g \in files : g \in DOMAIN diagnosticCollection

\* the status changes of f since the sweep of the last handler run started, in
\* order
StatusChangesOf(f) ==
    LET start == CHOOSE i \in LogOps("validateAllDirty") : TRUE
        sweep == SubSeq(log, start, Len(log))
        changes == SelectSeq(sweep, LAMBDA e : e.op = "setStatus" /\ e.file = f)
    IN  [i \in DOMAIN changes |-> changes[i].to]

\* C23 (Spec): every unknown file that is dirty when a sweep starts is
\* Validated when the sweep ends, having been set to Validating and then to
\* Validated; exactly one diagnostic is published for it when its text is not
\* empty and none when it is; no call of a validator and no validator process
\* is given the file.
C23_UnknownHandledLocally ==
    IsSweep =>
        \A f \in DirtyOfKind("unknown") :
            /\ status[f] = "Validated"
            /\ StatusChangesOf(f) = <<"Validating", "Validated">>
            /\ FileInfos[f].text # "" =>
                  /\ f \in DOMAIN diagnosticCollection
                  /\ Len(diagnosticCollection[f]) = 1
            /\ FileInfos[f].text = "" => f \notin DOMAIN diagnosticCollection
            /\ \A i \in ExternalCalls : f \notin {log[i].file} \cup log[i].with

\* a sweep handled an unknown file with text and one without, and went on to
\* call the validator for a domain
C23_UnknownsBesideDomain ==
    /\ IsSweep
    /\ {"u1", "u2"} \subseteq DirtyOfKind("unknown")
    /\ "u1" \in DOMAIN diagnosticCollection
    /\ Len(diagnosticCollection["u1"]) = 1
    /\ "u2" \notin DOMAIN diagnosticCollection
    /\ LogOps("validate") # {}

\* C30 (SpecAnalyze): once the sweep has validated the plan and the plan
\* validator has returned through onSuccess or onError, the plan is Validated
\* (no handler is pending after the sweep, so the status it leaves is final).
C30_PlanLeavesValidating ==
    (/\ planOutcome # <<>>
     /\ \E i \in LogOps("onSuccess") \cup LogOps("onError") : log[i].file = AnalysisPlan) =>
        status[AnalysisPlan] = "Validated"

(***************************************************************************)
(* Properties of the language features.                                    *)
(***************************************************************************)
CodeLensValues == {"[DocumentCodeLens]", "View", "View inset"}

\* C24 (SpecCodeLens): a request whose token was cancelled when the method was
\* called, or when it resumed after the parse or the domain resolution, has
\* returned null once it is over; it has not returned a code lens and has not
\* thrown.
C24_CancelledYieldsNull ==
    (codeLens # <<>> /\ codeLens.pc \in {"returned", "thrown"}
        /\ \E i \in DOMAIN codeLens.checks : codeLens.checks[i]) =>
        /\ codeLens.pc = "returned"
        /\ codeLens.result = "null"
        /\ codeLens.result \notin CodeLensValues

\* a request for the lenses of a problem with objects was cancelled while the
\* problem was parsed, and returned null
C24_CancelledWhileParsing ==
    /\ codeLens # <<>>
    /\ codeLens.call = "provideCodeLenses"
    /\ codeLens.problem = "objects"
    /\ codeLens.checks = <<FALSE, TRUE>>
    /\ codeLens.pc = "returned"
    /\ codeLens.result = "null"

\* the objects the map lists for a type, <<>> when it does not hold the type
ObjectsOf(map, type) ==
    LET found == getTypeCaseInsensitive(map, type)
    IN  IF found = <<>> THEN <<>> ELSE getObjects(found[1])

\* two maps have the same length and list the same objects for every type
SameIndex(map1, map2) ==
    /\ length(map1) = length(map2)
    /\ \A type \in QueriedTypes : ObjectsOf(map1, type) = ObjectsOf(map2, type)

\* C25 (SpecIndex): in every state of the index, and for every type, object
\* and list of objects, add applied twice leaves the length and every type's
\* object list as one application does, and so does addAll applied twice.
C25_AddIdempotent ==
    /\ \A type \in TypeNames, object \in ObjectNames :
          LET once == add(typeObjectMap, type, object)
          IN  SameIndex(add(once, type, object), once)
    /\ \A type \in TypeNames, objectNames \in ObjectLists :
          LET once == addAll(typeObjectMap, type, objectNames)
          IN  SameIndex(addAll(once, type, objectNames), once)

\* one pair was added twice to an empty index, which holds one type with one
\* object
C25_AddedTwice ==
    /\ added = << <<"type1", "object1">>, <<"type1", "object1">> >>
    /\ length(typeObjectMap) = 1
    /\ ObjectsOf(typeObjectMap, "type1") = <<"object1">>

\* the type an object was added to first, <<>> when it was never added
FirstTypeOf(object) ==
    LET at == {i \in DOMAIN added : added[i][2] = object}
    IN  IF at = {} THEN <<>>
        ELSE <<added[CHOOSE i \in at : \A j \in at : i <= j][1]>>

\* C26 (SpecIndex): after any sequence of add and addAll calls, getTypeOf of an
\* object yields the type T exactly when (T, O) was added and no pair with O
\* and another type was added before it; getTypeOf of an object never added
\* and getTypeCaseInsensitive of a type never added are undefined, and the
\* index without additions has length 0.
C26_FirstTypeOwns ==
    /\ \A object \in QueriedObjects, type \in TypeNames :
          (getTypeOf(typeObjectMap, object) # <<>>
              /\ getTypeOf(typeObjectMap, object)[1].type = type)
          <=> FirstTypeOf(object) = <<type>>
    /\ \A object \in QueriedObjects :
          FirstTypeOf(object) = <<>> => getTypeOf(typeObjectMap, object) = <<>>
    /\ \A type \in QueriedTypes :
          (\A i \in DOMAIN added : toLowerCase(added[i][1]) # toLowerCase(type)) =>
              getTypeCaseInsensitive(typeObjectMap, type) = <<>>
    /\ added = <<>> => length(typeObjectMap) = 0

\* an object was added to one type and then to another, and belongs to the first
C26_AddedToTwoTypes ==
    /\ added = << <<"type1", "object1">>, <<"type2", "object1">> >>
    /\ getTypeOf(typeObjectMap, "object1") # <<>>
    /\ getTypeOf(typeObjectMap, "object1")[1].type = "type1"
    /\ getTypeOf(typeObjectMap, "Object1") = <<>>

RECURSIVE Ascending(_)
\* the numbers of a set in ascending order
Ascending(S) ==
    IF S = {} THEN <<>>
    ELSE LET least == CHOOSE i \in S : \A j \in S : i <= j
         IN  <<least>> \o Ascending(S \ {least})

\* the objects added to a type, each at its first addition, in that order
FirstInsertionOrder(history, type) ==
    LET first == {i \in DOMAIN history :
                    /\ toLowerCase(history[i][1]) = toLowerCase(type)
                    /\ \A j \in 1..(i - 1) : history[j] # history[i]}
        at == Ascending(first)
    IN  [k \in DOMAIN at |-> history[at[k]][2]]

\* C29 (SpecIndex): after every add and addAll call the length of the index is
\* the number of distinct types added, the object list of each type holds the
\* objects added to it in the order of their first addition, each once, and
\* the list of every type the call did not add to is as it was.
C29_OrderedDuplicateFree ==
    [][ /\ length(typeObjectMap') = Cardinality({added'[i][1] : i \in DOMAIN added'})
        /\ \A type \in QueriedTypes :
              /\ ObjectsOf(typeObjectMap', type) = FirstInsertionOrder(added', type)
              /\ (\A i \in (DOMAIN added') \ (DOMAIN added) :
                      toLowerCase(added'[i][1]) # toLowerCase(type)) =>
                    ObjectsOf(typeObjectMap', type) = ObjectsOf(typeObjectMap, type)
      ]_vars

\* two types were added to, one of them twice with the same object in between
C29_TwoTypesThreeAdditions ==
    /\ added = << <<"type1", "object2">>, <<"type2", "object1">>, <<"type1", "object1">> >>
    /\ length(typeObjectMap) = 2
    /\ ObjectsOf(typeObjectMap, "TYPE1") = <<"object2", "object1">>
    /\ ObjectsOf(typeObjectMap, "type2") = <<"object1">>

\* the objects a list of per-type entries holds for a type
ListedFor(typeObjects, type) ==
    LET found == Find(typeObjects, LAMBDA e : e.type = type)
    IN  IF found = <<>> THEN <<>> ELSE getObjects(found[1])

\* the position of an object in a list that holds it once
PositionIn(list, object) == CHOOSE i \in DOMAIN list : list[i] = object

\* a precedes b in the list
Precedes(list, a, b) == PositionIn(list, a) < PositionIn(list, b)

ParentOf(type) ==
    LET at == {i \in DOMAIN typeInheritance : typeInheritance[i][1] = type}
    IN  IF at = {} THEN <<>> ELSE <<typeInheritance[CHOOSE i \in at : TRUE][2]>>

RECURSIVE ParentChain(_, _)
\* the parent of a type, the parent of that one and so on, steps times
ParentChain(type, steps) ==
    IF steps = 0 \/ ParentOf(type) = <<>> THEN {}
    ELSE {ParentOf(type)[1]} \cup ParentChain(ParentOf(type)[1], steps - 1)

\* the types whose parent chain includes the type
Descendants(type) ==
    {t \in HierarchyTypes : type \in ParentChain(t, Cardinality(HierarchyTypes))}

\* C28 (SpecInherit): for the edges of a single-inheritance hierarchy in any
\* order, the types found to inherit from the types asked about are exactly
\* the types whose parent chain includes one of them; nothing inherits from a
\* type without children or from a name that is not in the hierarchy.
C28_InheritingIsReachability ==
    typesInheriting # <<>> =>
        LET involved == typesInheriting[1]
            asked == Range(involved.typesDirectlyInvolved)
        IN  /\ Range(involved.typesInheriting) = UNION {Descendants(t) : t \in asked}
            /\ (\A t \in asked : \A i \in DOMAIN typeInheritance :
                    typeInheritance[i][2] # t) => involved.typesInheriting = <<>>
            /\ involved.returned =
                  involved.typesInheriting \o involved.typesDirectlyInvolved

\* the chain c -> b -> a, declared parent edge first, and the types inheriting
\* from a
C28_ChainOfThree ==
    /\ typeInheritance = << <<"b", "a">>, <<"c", "b">> >>
    /\ typesInheriting # <<>>
    /\ typesInheriting[1].typesDirectlyInvolved = <<"a">>
    /\ Range(typesInheriting[1].typesInheriting) = {"b", "c"}

(***************************************************************************)
(* Properties of configuration changes and of unconfigured tools.          *)
(***************************************************************************)
\* C31 (Spec): the step that handles a change of the parser settings or of the
\* validator path runs one sweep; when the sweep starts, exactly the files
\* that were not Dirty are Parsed, each set so by the step, and the status of
\* no Dirty file was set; the timer that was pending is cleared before the
\* sweep, and every timer pending after the step was set by the sweep.
C31_RevalidateAllResets ==
    [][ (pddlParserSettings' # pddlParserSettings \/ validatorPath' # validatorPath) =>
          LET sweeps == {i \in DOMAIN log' : log'[i].op = "validateAllDirty"}
              at == CHOOSE i \in sweeps : TRUE
          IN  /\ Cardinality(sweeps) = 1
              /\ log'[at].with = {f \in files : status[f] # "Dirty"}
              /\ \A f \in files :
                    /\ status[f] = "Dirty" =>
                          \A i \in 1..(at - 1) :
                              ~(log'[i].op = "setStatus" /\ log'[i].file = f)
                    /\ status[f] # "Dirty" =>
                          \E i \in 1..(at - 1) :
                              /\ log'[i].op = "setStatus"
                              /\ log'[i].file = f
                              /\ log'[i].to = "Parsed"
              /\ \A h \in DOMAIN timers :
                    \E i \in 1..(at - 1) :
                        log'[i].op = "clearTimeout" /\ log'[i].with = {h}
              /\ \A h \in DOMAIN timers' :
                    \E i \in (at + 1)..Len(log') :
                        log'[i].op = "setTimeout" /\ log'[i].with = {h}
      ]_vars

\* a configuration change found a timer pending and a validated file: the
\* timer was cleared, the file was made Parsed and swept, and no timer is left
C31_ChangeWhileTimerPending ==
    \E at \in LogOps("validateAllDirty") :
        /\ \E i \in 1..(at - 1) : log[i].op = "clearTimeout" /\ log[i].from = "pending"
        /\ \E i \in 1..(at - 1) :
              log[i].op = "setStatus" /\ log[i].from = "Validated" /\ log[i].to = "Parsed"
        /\ log[at].with # {}
        /\ timers = <<>>

\* the positions of the log of the step at which a call is recorded
StepOps(op) == {i \in DOMAIN log' : log'[i].op = op}

\* the published diagnostics of a file, <<>> when none are published
PublishedFor(collection, f) ==
    IF f \in DOMAIN collection THEN <<collection[f]>> ELSE <<>>

\* C32 (Spec): in a step that runs a sweep, a request to validate a domain
\* and its problems while executableOrService is empty only suggests a new
\* configuration: the file asked for stays Parsed, the status of no domain or
\* problem is set, no validator is created or called, nothing is published
\* for a domain or problem and no timer is set.  A request to validate a plan
\* while the validator path is empty only shows a message: the plan stays
\* Parsed, no process is spawned, no callback runs, its diagnostics are as
\* they were and no timer is set.
C32_UnconfiguredDoesNothing ==
    [][ StepOps("validateAllDirty") # {} =>
          LET at == CHOOSE i \in StepOps("validateAllDirty") : TRUE
              during == (at + 1)..Len(log')
              unconfigured == pddlParserSettings'.executableOrService = ""
              modelFiles == {f \in files : isDomain(f) \/ isProblem(f)}
          IN  /\ \A i \in StepOps("suggestNewParserConfiguration") :
                    /\ unconfigured
                    /\ i - 1 \in StepOps("validatePddlDocument")
                    /\ status'[log'[i - 1].file] = "Parsed"
                    /\ i = Len(log') \/ i + 1 \in StepOps("validatePlan")
              /\ unconfigured =>
                    /\ \A i \in StepOps("validatePddlDocument") :
                          \/ i + 1 \in StepOps("suggestNewParserConfiguration")
                          \/ /\ isProblem(log'[i].file)
                             /\ Len(getDomainFilesFor(log'[i].file)) # 1
                    /\ StepOps("validate") = {}
                    /\ StepOps("new ValidatorExecutable") = {}
                    /\ StepOps("new ValidatorService") = {}
                    /\ inflight' = inflight
                    /\ validator' = validator
                    /\ \A f \in modelFiles :
                          /\ \A i \in during \cap StepOps("setStatus") :
                                log'[i].file = f => Len(getDomainFilesFor(f)) # 1
                          /\ Len(getDomainFilesFor(f)) = 1 \/ isDomain(f) =>
                                PublishedFor(diagnosticCollection', f) =
                                PublishedFor(diagnosticCollection, f)
                    /\ (StepOps("validatePlan") = {} \/ validatorPath' = "") =>
                          StepOps("setTimeout") = {}
              /\ validatorPath' = "" =>
                    \A i \in StepOps("validatePlan") :
                        /\ i + 1 = Len(log')
                        /\ log'[i + 1].op = "showErrorMessage"
                        /\ status'[log'[i].file] = "Parsed"
                        /\ StepOps("spawnSync") = {}
                        /\ StepOps("onSuccess") \cup StepOps("onError") = {}
                        /\ PublishedFor(diagnosticCollection', log'[i].file) =
                           PublishedFor(diagnosticCollection, log'[i].file)
                        /\ StepOps("setTimeout") = {}
      ]_vars

\* neither tool is configured: a sweep asked for a problem and then for a
\* plan, and both are still dirty
C32_BothUnconfigured ==
    /\ pddlParserSettings.executableOrService = ""
    /\ validatorPath = ""
    /\ \E i \in LogOps("suggestNewParserConfiguration") :
          /\ i > 1
          /\ log[i - 1].op = "validatePddlDocument"
          /\ status[log[i - 1].file] = "Parsed"
          /\ i + 1 \in LogOps("validatePlan")
          /\ status[log[i + 1].file] = "Parsed"
          /\ log[Len(log)].op = "showErrorMessage"
    /\ inflight = EmptyBag

(***************************************************************************)
(* Properties of the plan validator's callbacks.                           *)
(***************************************************************************)
\* the problems of the plan's folder whose name is the plan's problem name,
\* whatever the case of the letters
ProblemsNamedBy(l) ==
    {p \in files : /\ isProblem(p)
                   /\ FileInfos[p].folder = FileInfos[l].folder
                   /\ toLowerCase(FileInfos[p].name) = toLowerCase(FileInfos[l].ref)}

\* the plan has no problem, or its problem has no domain
LacksProblemOrDomain(l) ==
    \A p \in ProblemsNamedBy(l) : WorkspaceDomainFileFor(p) = <<>>

\* C33 (SpecLookup): a call of validatePlanAndReportDiagnostics that returns
\* has run one callback, once; it does not return exactly when it throws.
\* When the plan has no problem of its name in its folder, or that problem
\* has no domain, the call returns without spawning the validator and without
\* onError, and onSuccess publishes one Error diagnostic at line 0 for the
\* plan; otherwise the validator is spawned once.
C33_OneCallback ==
    planOutcome # <<>> =>
        \A i \in LogOps("validatePlan") :
            LET l == log[i].file
                callbacks == LogOps("onSuccess") \cup LogOps("onError")
            IN  /\ planOutcome[1] # <<>> <=> LogOps("throw") = {}
                /\ planOutcome[1] # <<>> =>
                      /\ Cardinality(callbacks) = 1
                      /\ \A j \in callbacks : j > i /\ log[j].file = l
                /\ planOutcome[1] = <<>> => callbacks = {}
                /\ LacksProblemOrDomain(l) =>
                      /\ planOutcome[1] # <<>>
                      /\ LogOps("spawnSync") = {}
                      /\ LogOps("onError") = {}
                      /\ Cardinality(LogOps("onSuccess")) = 1
                      /\ l \in DOMAIN diagnosticCollection
                      /\ Len(diagnosticCollection[l]) = 1
                      /\ diagnosticCollection[l][1].line = 0
                      /\ diagnosticCollection[l][1].severity = "Error"
                      /\ planOutcome[1][1].diagnostics = diagnosticCollection[l]
                /\ ~LacksProblemOrDomain(l) => Cardinality(LogOps("spawnSync")) = 1

\* the plan's problem is open, spelled in another case, but two domains are
\* candidates for it: the plan got its one diagnostic without the validator
C33_ProblemWithoutDomain ==
    /\ files = {"d1", "d2", "p1", "l1"}
    /\ planOutcome # <<>>
    /\ ProblemsNamedBy("l1") = {"p1"}
    /\ LogOps("validatePlan") # {}
    /\ LogOps("onSuccess") # {}
    /\ LogOps("spawnSync") = {}
    /\ "l1" \in DOMAIN diagnosticCollection
    /\ Len(diagnosticCollection["l1"]) = 1

(***************************************************************************)
(* Properties of the debounce delay.                                       *)
(***************************************************************************)
\* the delay the settings ask for, in seconds: the configured one, or the
\* default when none is configured
ConfiguredDelayInSeconds ==
    IF pddlParserSettings.delayInSecondsBeforeParsing # <<>>
    THEN pddlParserSettings.delayInSecondsBeforeParsing[1]
    ELSE defaultTimerDelayInSeconds

\* C34 (SpecDebounce): the timer that scheduleValidation has just set is armed
\* for the configured delayInSecondsBeforeParsing times 1000 milliseconds,
\* whatever value is configured, and for 3000 milliseconds only when no delay
\* is configured.
C34_ConfiguredDelayArmed ==
    \A i \in LogOps("setTimeout") :
        \A h \in log[i].with :
            /\ h \in DOMAIN timers
            /\ timers[h] = ConfiguredDelayInSeconds * MsPerSecond

====
